---- MODULE Spec2Model ----
(***************************************************************************)
(* A model of the SWR cache-consistency engine (src/src/use-swr.ts,        *)
(* src/src/cache.ts, src/src/config.ts): the key-addressed cache, the      *)
(* in-flight registry CONCURRENT_PROMISES / CONCURRENT_PROMISES_TS, the    *)
(* mutation ledger MUTATION_TS / MUTATION_END_TS, the per-key updater list *)
(* CACHE_REVALIDATORS, and the asynchronous functions revalidate and       *)
(* mutate, cut at their await points.                                      *)
(*                                                                         *)
(* JavaScript scheduling is modelled as it is: a handler runs to its next  *)
(* await without interruption; continuations of settled promises sit in a  *)
(* FIFO microtask queue that is drained before any other task (a timer, a  *)
(* fetch settling, a new external call) runs, so one step of the model is  *)
(* one task together with the microtasks it leaves behind.  Date.now() is  *)
(* the variable now, a non-decreasing millisecond clock: several           *)
(* operations may read the same value.                                     *)
(***************************************************************************)
EXTENDS Integers, Sequences, FiniteSets, TLC

\* ---------------------------------------------------------------- bounds
MaxTime == 4          \* the clock runs from StartTime to MaxTime
MaxCalls == 3         \* revalidate calls in a behaviour without mutate calls
MaxMutates == 2       \* mutate calls in a behaviour without revalidate calls
MaxRetryTime == 5     \* the clock runs to MaxRetryTime where retries are followed
MaxRetryCount == 10   \* opts.retryCount handed to onErrorRetry: 0..MaxRetryCount
MaxErrorRetryCount == 2 \* config.errorRetryCount, when set: 0..MaxErrorRetryCount
DedupingInterval == 1 \* config.dedupingInterval, in clock ticks
StartTime == 2        \* Date.now() of the first operation (any value > 1)
ErrorRetryInterval == 1 \* config.errorRetryInterval, in clock ticks
RandDen == 16         \* Math.random() returns one of 0/RandDen .. (RandDen-1)/RandDen
LoadingTimeout == 1   \* config.loadingTimeout where it is set, in clock ticks
FocusThrottleInterval == 1 \* config.focusThrottleInterval, in clock ticks

HookOrder == <<"h1", "h2">> \* useSWR instances, all on the key K
Hooks == {HookOrder[i] : i \in 1..Len(HookOrder)}
Values == {"A", "B"}        \* data values a fetcher or a mutate can produce
Undef == "undefined"        \* the JavaScript value undefined
Null == "null"              \* the JavaScript value null
NoHook == "-"

\* `if (x)`: undefined and null are falsy, the values and the error objects
\* of the model are truthy.
Truthy(x) == x # Undef /\ x # Null

\* The error object fetch f rejects with, and the one mutate m's value
\* rejects with: every rejection creates its own object.
FetchErrNames ==
    <<"E1", "E2", "E3", "E4", "E5", "E6", "E7", "E8", "E9", "E10", "E11",
      "E12", "E13", "E14", "E15", "E16">>
MutErrNames == <<"M1", "M2", "M3", "M4", "M5", "M6", "M7", "M8">>
FetchErr(f) == FetchErrNames[f]
MutErr(m) == MutErrNames[m]

\* ------------------------------------------------------------------ keys
\* A string is the sequence of its characters, so that 'err@' + key is a
\* real concatenation.  K is the one resource the engine runs on.
K == <<"a">>

ErrPrefix == <<"e", "r", "r", "@">>

\* cache.serializeKey for a string key: [key, args, errorKey].
SerializeKey(key) ==
    [key |-> key, args |-> Null,
     errKey |-> IF key = <<>> THEN <<>> ELSE ErrPrefix \o key]

KeyErr == SerializeKey(K).errKey

\* ------------------------------------------------- JavaScript objects/maps
\* A plain object or Map: a function whose DOMAIN is the set of keys present.
Has(m, k) == k \in DOMAIN m
Get(m, k) == IF k \in DOMAIN m THEN m[k] ELSE Undef
PutIfAbsent(m, k, v) ==
    [x \in (DOMAIN m) \cup {k} |-> IF x \in DOMAIN m THEN m[x] ELSE v]
Put(m, k, v) == [x \in (DOMAIN m) \cup {k} |-> IF x = k THEN v ELSE m[x]]
Del(m, k) == [x \in (DOMAIN m) \ {k} |-> m[x]]
EmptyMap == [x \in {} |-> Undef]

\* ------------------------------------------------------- keys of any kind
\* What a caller can pass as a key: a string, null, an array of arguments or
\* a function that returns one of these or throws.  The elements of an array
\* are strings, numbers, null, undefined or objects (known by reference).
StringKey(s) == [t |-> "string", s |-> s]
NullKey == [t |-> "null"]
ArrayKey(a) == [t |-> "array", a |-> a]
FunctionKey(throws, returns) ==
    [t |-> "function", throws |-> throws, returns |-> returns]
StringArg(s) == [t |-> "string", s |-> s]
NumberArg(n) == [t |-> "number", n |-> n]
NullArg == [t |-> "null"]
UndefinedArg == [t |-> "undefined"]
ObjectArg(ref) == [t |-> "object", ref |-> ref]

\* String(n) for a number 0..9.
Digits == <<"0", "1", "2", "3", "4", "5", "6", "7", "8", "9">>
NumberToString(n) == <<Digits[n + 1]>>

\* hash: 'arg' followed, for every element, by '@' and the element's text:
\* a string between double quotes, another primitive as String() gives it,
\* an object as the number the WeakMap holds for it, a new object getting
\* the counter's value.  The result is the text with the WeakMap and the
\* counter the call leaves.
RECURSIVE HashFrom(_, _, _, _, _)
HashFrom(args, i, key, tbl, cnt) ==
    IF i > Len(args) THEN [key |-> key, table |-> tbl, counter |-> cnt]
    ELSE LET x == args[i]
             isNew == x.t = "object" /\ ~Has(tbl, x.ref)
             hashed ==
               CASE x.t = "string" -> <<"\"">> \o x.s \o <<"\"">>
                 [] x.t = "number" -> NumberToString(x.n)
                 [] x.t = "null" -> <<"n", "u", "l", "l">>
                 [] x.t = "undefined" ->
                      <<"u", "n", "d", "e", "f", "i", "n", "e", "d">>
                 [] x.t = "object" ->
                      NumberToString(IF isNew THEN cnt ELSE tbl[x.ref])
         IN HashFrom(args, i + 1, key \o <<"@">> \o hashed,
                     IF isNew THEN Put(tbl, x.ref, cnt) ELSE tbl,
                     IF isNew THEN cnt + 1 ELSE cnt)

Hash(args, tbl, cnt) ==
    IF args = <<>> THEN [key |-> <<>>, table |-> tbl, counter |-> cnt]
    ELSE HashFrom(args, 1, <<"a", "r", "g">>, tbl, cnt)

\* serializeKey without its try/catch: what the key function would have
\* returned is used although the call threw.
SerializeAnyKeyUncaught(key, tbl, cnt) ==
    LET called == IF key.t = "function" THEN key.returns ELSE key
        str == IF called.t = "string" THEN called.s ELSE <<>>
    IN [key |-> str, args |-> Null,
        errKey |-> IF str = <<>> THEN <<>> ELSE ErrPrefix \o str,
        table |-> tbl, counter |-> cnt]

\* cache.serializeKey for any key: a function is called (a throw gives ''),
\* an array is hashed and kept as args, anything else goes through
\* String(key || '').
SerializeAnyKey(key, tbl, cnt) ==
    LET called == IF key.t = "function"
                  THEN IF key.throws THEN StringKey(<<>>) ELSE key.returns
                  ELSE key
        hashed == Hash(called.a, tbl, cnt)
        str == IF called.t = "string" THEN called.s ELSE <<>>
    IN IF called.t = "array"
       THEN [key |-> hashed.key, args |-> called.a,
             errKey |-> IF hashed.key = <<>> THEN <<>>
                        ELSE ErrPrefix \o hashed.key,
             table |-> hashed.table, counter |-> hashed.counter]
       ELSE [key |-> SerializeKey(str).key, args |-> SerializeKey(str).args,
             errKey |-> SerializeKey(str).errKey,
             table |-> tbl, counter |-> cnt]

\* A value is an object: "A'" is another object with the content of "A".
Content(v) == IF v = "A'" THEN "A" ELSE v

\* config.compare: fast-deep-equal; values are compared structurally.
Compare(a, b) == Content(a) = Content(b)

VARIABLES
    now,        \* Date.now()
    cache,      \* Cache.__cache: key -> value
    cp,         \* CONCURRENT_PROMISES: key -> fetch promise (index in fetches)
    cpts,       \* CONCURRENT_PROMISES_TS: key -> start timestamp
    mts,        \* MUTATION_TS: key -> timestamp
    mend,       \* MUTATION_END_TS: key -> timestamp
    updaters,   \* CACHE_REVALIDATORS: key -> list of hooks (their onUpdate)
    hooks,      \* per hook: lifecycle, stateRef.current, unmountedRef
    fetches,    \* the promises returned by the fetcher
    calls,      \* the revalidate calls (async function activations)
    muts,       \* the mutate calls (async function activations)
    timers,     \* pending setTimeout / requestIdleCallback callbacks
    config,     \* the configuration the hooks were given
    visible,    \* what isDocumentVisible() answers
    cacheSrc,   \* history: the operation whose value cache[K] holds
    errEvt,     \* history: outcomes of fetch attempts and mutate commits
    table,      \* hash: the WeakMap from objects to their numbers
    counter,    \* hash: the number the next new object gets
    bcast,      \* the broadcastState loop that is running, if one is
    registered, \* history: the registered callbacks, oldest first
    returned,   \* what the last call made from outside returned
    listeners,  \* Cache.__listeners and the subscriptions made
    focusRevalidators,     \* FOCUS_REVALIDATORS: key -> list of hooks (onFocus)
    reconnectRevalidators, \* RECONNECT_REVALIDATORS: key -> list of hooks
    online,     \* what isOnline() answers
    marks       \* history: calls onLoadingSlow was emitted for, calls of events

vars == <<now, cache, cp, cpts, mts, mend, updaters, hooks, fetches, calls,
          muts, timers, config, visible, cacheSrc, errEvt, table, counter,
          bcast, registered, returned, listeners, focusRevalidators,
          reconnectRevalidators, online, marks>>

\* The mutable program state as one record, so that a handler is a
\* composition of functions on it.  micro is the microtask queue, empty
\* between tasks; rnd / RandDen is what Math.random() returns in this task.
State ==
    [now |-> now, cache |-> cache, cp |-> cp, cpts |-> cpts, mts |-> mts,
     mend |-> mend, updaters |-> updaters, hooks |-> hooks,
     fetches |-> fetches, calls |-> calls, muts |-> muts, timers |-> timers,
     config |-> config, visible |-> visible, cacheSrc |-> cacheSrc,
     errEvt |-> errEvt, table |-> table, counter |-> counter,
     bcast |-> bcast, registered |-> registered, returned |-> returned,
     listeners |-> listeners, focusRevalidators |-> focusRevalidators,
     reconnectRevalidators |-> reconnectRevalidators, online |-> online,
     marks |-> marks, micro |-> <<>>, rnd |-> 0]

\* history: the kind and the start time of the operation that produced a value
NoSrc == [k |-> "none", at |-> 0]
FetchSrc(S, f) == [k |-> "fetch", at |-> S.fetches[f].startAt]
MutSrc(S, m) == [k |-> "mutate", at |-> S.muts[m].at]

\* The records of finished activations keep only their result: what a
\* finished call once was is history no later step reads.
DoneCall(ret, parent) ==
    [hook |-> NoHook, dedupe |-> FALSE, retryCount |-> 0,
     shouldDeduping |-> FALSE, startAt |-> 0, fetch |-> 0, pc |-> "done",
     ret |-> ret, parent |-> parent, ovl |-> FALSE]

DoneMutate(mu, outcome, result) ==
    [kind |-> "-", shouldRevalidate |-> FALSE, beforeMutationTs |-> 0,
     beforeConcurrentPromisesTs |-> 0, pc |-> "done", data |-> mu.data,
     error |-> mu.error, outcome |-> outcome, result |-> result, at |-> 0,
     committed |-> mu.committed, superseded |-> FALSE, laterMut |-> FALSE]

GoneFetch == [startAt |-> 0, state |-> "gone", val |-> Undef]

\* A settled promise nothing refers to any more is garbage.  (Here and below
\* an array rebuilt element by element is concatenated with <<>>, which
\* makes the rebuilt value a sequence like the array it replaces.)
Collect(S) ==
    [S EXCEPT !.fetches =
       [f \in DOMAIN @ |->
          IF /\ @[f].state # "pending"
             /\ ~(Has(S.cp, K) /\ S.cp[K] = f)
             /\ \A c \in DOMAIN S.calls :
                   ~(S.calls[c].pc = "await" /\ S.calls[c].fetch = f)
          THEN GoneFetch ELSE @[f]] \o <<>>]

\* ------------------------------------------------------------ configuration
\* defaultConfig of src/src/config.ts, as far as the engine reads it;
\* errorRetryCount is not set by default.
DefaultConfig ==
    [shouldRetryOnError |-> TRUE,
     hasErrorRetryCount |-> FALSE,
     errorRetryCount |-> 0,
     errorRetryInterval |-> ErrorRetryInterval,
     loadingTimeout |-> 0,
     revalidateOnFocus |-> TRUE,
     revalidateOnReconnect |-> TRUE,
     focusThrottleInterval |-> FocusThrottleInterval]

\* Hooks created with {shouldRetryOnError: false}.
NoRetryConfig == [DefaultConfig EXCEPT !.shouldRetryOnError = FALSE]

\* A timestamp read from a registry, -1 standing for undefined.
GetTs(m, k) == IF k \in DOMAIN m THEN m[k] ELSE -1

\* ------------------------------------------------------------ hook state
\* dispatch: merges the payload into stateRef.current; the unmount cleanup
\* replaces dispatch by a no-op.
Dispatch(S, h, newState) ==
    IF S.hooks[h].status = "unmounted" THEN S
    ELSE [S EXCEPT !.hooks[h] = newState]

\* history only: hook h has been handed the value produced by src.
Received(S, h, src) ==
    IF S.hooks[h].status = "unmounted" THEN S
    ELSE [S EXCEPT !.hooks[h].src = src]

Children(S, m) == {c \in 1..Len(S.calls) : S.calls[c].parent = m}
Pending(S, m) == {c \in Children(S, m) : S.calls[c].pc # "done"}

\* A revalidate call returns: its promise resolves with ret.  When it was the
\* last one a mutate is waiting for (Promise.all), the mutate's then-callback
\* is queued.
Return(S, c, ret) ==
    LET S1 == [S EXCEPT !.calls[c] = DoneCall(ret, S.calls[c].parent)]
        m == S.calls[c].parent
    IN IF m # 0 /\ S1.muts[m].pc = "awaitRevals" /\ Pending(S1, m) = {}
       THEN [S1 EXCEPT !.micro = Append(@, [k |-> "mutfin", id |-> m])]
       ELSE S1

\* A revalidate whose last statement returns false.
ReturnFalse(S, c) == Return(S, c, "false")

\* The last statement of revalidate, reached from the end of the try block
\* and from the end of the catch block alike: return true.
ReturnTrue(S, c) == Return(S, c, "true")

\* ------------------------------------------------------------- revalidate
\* A revalidate that goes on although its hook has been unmounted.
ReturnsEarlyUnlessUnmounted(S, h) ==
    S.hooks[h].key = <<>> \/ ~S.hooks[h].fn

\* The early returns of revalidate: no key, no fetcher, or unmounted.
ReturnsEarly(S, h) ==
    \/ S.hooks[h].key = <<>> \/ ~S.hooks[h].fn
    \/ S.hooks[h].status = "unmounted"

\* revalidate up to its await: the early returns, the dedup decision, the
\* fetcher call and the registration in the in-flight registry.
RevalBegin(S, h, dedupe, retryCount, parent) ==
    LET c == Len(S.calls) + 1
        base == [hook |-> h, dedupe |-> dedupe, retryCount |-> retryCount,
                 shouldDeduping |-> FALSE, startAt |-> 0, fetch |-> 0,
                 pc |-> "await", ret |-> "pending", parent |-> parent,
                 ovl |-> FALSE]
    IN IF ReturnsEarly(S, h)
       THEN [S EXCEPT !.calls = Append(@, DoneCall("false", parent))]
       ELSE
         LET shouldDeduping == Has(S.cp, K) /\ dedupe
             S1 == Dispatch(S, h, [S.hooks[h] EXCEPT !.isValidating = TRUE])
         IN IF shouldDeduping
            THEN LET f == S1.cp[K]
                     rec == [base EXCEPT !.shouldDeduping = TRUE,
                                         !.startAt = S1.cpts[K],
                                         !.fetch = f]
                 IN [S1 EXCEPT
                       !.calls = Append(@, rec),
                       !.micro = IF S1.fetches[f].state = "pending" THEN @
                                 ELSE Append(@, [k |-> "reval", id |-> c])]
            ELSE LET f == Len(S1.fetches) + 1
                     rec == [base EXCEPT !.startAt = S1.now, !.fetch = f]
                 IN [S1 EXCEPT
                       !.timers =
                          IF S1.config.loadingTimeout # 0
                             /\ ~Truthy(Get(S1.cache, K))
                          THEN @ \cup
                               {[kind |-> "slow",
                                 at |-> S1.now + S1.config.loadingTimeout,
                                 hook |-> h, dedupe |-> FALSE,
                                 retryCount |-> 0, id |-> c]}
                          ELSE @,
                       !.fetches = Append(@, [startAt |-> S1.now,
                                              state |-> "pending",
                                              val |-> Undef]),
                       !.cp = Put(@, K, f),
                       !.cpts = Put(@, K, S1.now),
                       !.calls = Append(@, rec),
                       !.muts = [m \in DOMAIN @ |->
                                   IF @[m].pc # "done"
                                   THEN [@[m] EXCEPT !.superseded = TRUE]
                                   ELSE @[m]] \o <<>>]

\* An onUpdate that takes an undefined updatedData for a new value.
OnUpdateTakesUndefined(S, h, shouldRevalidate, updatedData, updatedError, dedupe, parent, src) ==
    LET st == S.hooks[h]
        dataChanged == ~Compare(st.data, updatedData)
        errChanged == st.error # updatedError
        newState == [st EXCEPT
                       !.data = IF dataChanged THEN updatedData ELSE @,
                       !.error = IF errChanged THEN updatedError ELSE @]
        S1 == IF dataChanged \/ errChanged THEN Dispatch(S, h, newState) ELSE S
    IN IF shouldRevalidate THEN RevalBegin(S1, h, dedupe, 0, parent) ELSE S1

\* An onUpdate that takes every defined updatedData for a new value.
OnUpdateReplacesEqual(S, h, shouldRevalidate, updatedData, updatedError, dedupe, parent, src) ==
    LET st == S.hooks[h]
        dataChanged == updatedData # Undef
        errChanged == st.error # updatedError
        newState == [st EXCEPT
                       !.data = IF dataChanged THEN updatedData ELSE @,
                       !.error = IF errChanged THEN updatedError ELSE @]
        S1 == IF dataChanged \/ errChanged THEN Dispatch(S, h, newState) ELSE S
        S2 == IF updatedData # Undef THEN Received(S1, h, src) ELSE S1
    IN IF shouldRevalidate THEN RevalBegin(S2, h, dedupe, 0, parent) ELSE S2

\* onUpdate: the callback a hook registers in CACHE_REVALIDATORS.
OnUpdate(S, h, shouldRevalidate, updatedData, updatedError, dedupe, parent, src) ==
    LET st == S.hooks[h]
        dataChanged == updatedData # Undef /\ ~Compare(st.data, updatedData)
        errChanged == st.error # updatedError
        newState == [st EXCEPT
                       !.data = IF dataChanged THEN updatedData ELSE @,
                       !.error = IF errChanged THEN updatedError ELSE @]
        S1 == IF dataChanged \/ errChanged THEN Dispatch(S, h, newState) ELSE S
        S2 == IF updatedData # Undef THEN Received(S1, h, src) ELSE S1
    IN IF shouldRevalidate THEN RevalBegin(S2, h, dedupe, 0, parent) ELSE S2

\* A loop over the updaters that asks every one of them to dedupe.
RECURSIVE UpdateAllDeduped(_, _, _, _, _, _, _, _)
UpdateAllDeduped(S, us, i, shouldRevalidate, data, error, parent, src) ==
    IF i > Len(us) THEN S
    ELSE UpdateAllDeduped(
           OnUpdate(S, us[i], shouldRevalidate, data, error, TRUE, parent, src),
           us, i + 1, shouldRevalidate, data, error, parent, src)

\* The loop over CACHE_REVALIDATORS[key] of broadcastState (shouldRevalidate
\* false) and of mutate (shouldRevalidate as given, dedupe for i > 0).
RECURSIVE UpdateAll(_, _, _, _, _, _, _, _)
UpdateAll(S, us, i, shouldRevalidate, data, error, parent, src) ==
    IF i > Len(us) THEN S
    ELSE UpdateAll(
           OnUpdate(S, us[i], shouldRevalidate, data, error, i > 1, parent, src),
           us, i + 1, shouldRevalidate, data, error, parent, src)

\* A broadcast that forgets to pass the error on.
BroadcastStateWithoutError(S, data, error, src) ==
    IF Has(S.updaters, K)
    THEN UpdateAll(S, S.updaters[K], 1, FALSE, data, Undef, 0, src)
    ELSE S

\* broadcastState: every callback registered for the key is handed the data
\* and the error, without revalidating.
BroadcastState(S, data, error, src) ==
    IF Has(S.updaters, K)
    THEN UpdateAll(S, S.updaters[K], 1, FALSE, data, error, 0, src)
    ELSE S

\* A delay that keeps doubling beyond the eighth retry.
RetryTimeoutUncapped(rnd, retryCount, errorRetryInterval) ==
    (((2 * rnd + RandDen) * (2 ^ retryCount)) \div (2 * RandDen))
      * errorRetryInterval

\* The delay onErrorRetry computes:
\* ~~((Math.random() + 0.5) * (1 << count)) * config.errorRetryInterval
\* with count = Math.min(opts.retryCount || 0, 8) and Math.random() = rnd / RandDen.
RetryTimeout(rnd, retryCount, errorRetryInterval) ==
    LET count == IF retryCount < 8 THEN retryCount ELSE 8
    IN (((2 * rnd + RandDen) * (2 ^ count)) \div (2 * RandDen))
         * errorRetryInterval

\* An onErrorRetry that gives up one attempt early.
OnErrorRetryStopsEarly(S, c, opts) ==
    IF ~S.visible THEN S
    ELSE IF S.config.hasErrorRetryCount
            /\ opts.retryCount >= S.config.errorRetryCount
    THEN S
    ELSE [S EXCEPT !.timers = @ \cup
            {[kind |-> "retry",
              at |-> S.now + RetryTimeout(S.rnd, opts.retryCount,
                                          S.config.errorRetryInterval),
              hook |-> S.calls[c].hook,
              dedupe |-> opts.dedupe, retryCount |-> opts.retryCount,
              id |-> c]}]

\* onErrorRetry of config.ts: the retry is a timer that calls revalidate(opts).
OnErrorRetry(S, c, opts) ==
    IF ~S.visible THEN S
    ELSE IF S.config.hasErrorRetryCount
            /\ opts.retryCount > S.config.errorRetryCount
    THEN S
    ELSE [S EXCEPT !.timers = @ \cup
            {[kind |-> "retry",
              at |-> S.now + RetryTimeout(S.rnd, opts.retryCount,
                                          S.config.errorRetryInterval),
              hook |-> S.calls[c].hook,
              dedupe |-> opts.dedupe, retryCount |-> opts.retryCount,
              id |-> c]}]

\* shouldIgnoreRequest of revalidate.
ShouldIgnoreRequest(S, startAt) ==
    \/ (Has(S.cpts, K) /\ S.cpts[K] > startAt)
    \/ /\ Has(S.mts, K) /\ S.mts[K] # 0
       /\ \/ startAt <= S.mts[K]
          \/ (Has(S.mend, K) /\ startAt <= S.mend[K])
          \/ (Has(S.mend, K) /\ S.mend[K] = 0)

\* revalidate after its await, the awaited promise having resolved.
RevalSuccess(S, c) ==
    LET call == S.calls[c]
        h == call.hook
        newData == S.fetches[call.fetch].val
        src == FetchSrc(S, call.fetch)
        S1 == IF call.shouldDeduping THEN S
              ELSE [S EXCEPT !.timers = @ \cup
                      {[kind |-> "dedupe", at |-> S.now + DedupingInterval,
                        hook |-> NoHook, dedupe |-> FALSE, retryCount |-> 0,
                        id |-> c]}]
    IN IF ShouldIgnoreRequest(S1, call.startAt)
       THEN Return(
              Dispatch([S1 EXCEPT !.errEvt.fetch = Undef], h,
                       [S1.hooks[h] EXCEPT !.isValidating = FALSE]),
              c, "false")
       ELSE
         LET S2 == [S1 EXCEPT
                      !.cache = Put(Put(@, K, newData), KeyErr, Undef),
                      !.cacheSrc = src,
                      !.errEvt = [fetch |-> Undef, any |-> Undef],
                      !.calls = [d \in DOMAIN @ |->
                                   IF d = c THEN @[d]
                                   ELSE [@[d] EXCEPT !.ovl = FALSE]] \o <<>>]
             st == S2.hooks[h]
             newState == [st EXCEPT
                            !.isValidating = FALSE,
                            !.error = Undef,
                            !.data = IF ~Compare(st.data, newData)
                                     THEN newData ELSE @]
             S3 == Received(Dispatch(S2, h, newState), h, src)
             S4 == IF ~call.shouldDeduping
                   THEN BroadcastState(S3, newData, Undef, src)
                   ELSE S3
         IN ReturnTrue(S4, c)

\* revalidate's catch block, the awaited promise having rejected.
RevalFailure(S, c) ==
    LET call == S.calls[c]
        h == call.hook
        err == S.fetches[call.fetch].val
        S1 == [S EXCEPT !.cp = Del(@, K), !.cpts = Del(@, K),
                        !.cache = Put(@, KeyErr, err),
                        !.errEvt = [fetch |-> err, any |-> err]]
        st == S1.hooks[h]
        S2 == IF st.error # err
              THEN LET S21 == Dispatch(S1, h,
                                [st EXCEPT !.isValidating = FALSE,
                                           !.error = err])
                   IN IF ~call.shouldDeduping
                      THEN BroadcastState(S21, Undef, err, NoSrc)
                      ELSE S21
              ELSE S1
        S3 == IF S.config.shouldRetryOnError
              THEN OnErrorRetry(S2, c,
                     [dedupe |-> call.dedupe,
                      retryCount |-> call.retryCount + 1])
              ELSE S2
    IN ReturnTrue(S3, c)

RevalResume(S, c) ==
    IF S.fetches[S.calls[c].fetch].state = "resolved"
    THEN RevalSuccess(S, c)
    ELSE RevalFailure(S, c)

\* revalidate when the fetcher throws instead of returning a promise: nothing
\* is registered in the in-flight registry and the catch block runs at once.
\* A dedup join does not call the fetcher.
RevalThrow(S, h, dedupe, retryCount, parent) ==
    IF ReturnsEarly(S, h) \/ (Has(S.cp, K) /\ dedupe)
    THEN RevalBegin(S, h, dedupe, retryCount, parent)
    ELSE LET c == Len(S.calls) + 1
             f == Len(S.fetches) + 1
             S1 == Dispatch(S, h, [S.hooks[h] EXCEPT !.isValidating = TRUE])
             S2 == [S1 EXCEPT
                      !.fetches = Append(@, [startAt |-> S1.now,
                                             state |-> "rejected",
                                             val |-> FetchErr(f)]),
                      !.calls = Append(@,
                         [hook |-> h, dedupe |-> dedupe,
                          retryCount |-> retryCount, shouldDeduping |-> FALSE,
                          startAt |-> 0, fetch |-> f, pc |-> "await",
                          ret |-> "pending", parent |-> parent,
                          ovl |-> FALSE])]
         IN RevalFailure(S2, c)

\* ----------------------------------------------------------------- mutate
\* A mutate that writes the error entry only.
MutateCacheSetKeepsData(c, data, error) ==
    Put(c, KeyErr, error)

\* A mutate that leaves ErrorKey alone when it caught no error.
MutateCacheSetOnlyErrors(c, data, error) ==
    LET c1 == IF data # Undef THEN Put(c, K, data) ELSE c
    IN IF error # Undef THEN Put(c1, KeyErr, error) ELSE c1

\* The cache writes of a mutate without the test for undefined data.
MutateCacheSetUnguarded(c, data, error) ==
    Put(Put(c, K, data), KeyErr, error)

\* The cache writes of a mutate that persists its change: the data when it
\* is defined, and always the captured error.
MutateCacheSet(c, data, error) ==
    Put(IF data # Undef THEN Put(c, K, data) ELSE c, KeyErr, error)

\* mutate after its value is known (the code after the await, or at once for
\* a plain value): the conflict check, the cache writes, the closing of the
\* window and the loop over the updaters.
MutateSettled(S, m) ==
    LET mu == S.muts[m]
        data == mu.data
        error == mu.error
    IN IF \/ mu.beforeMutationTs # GetTs(S.mts, K)
          \/ mu.beforeConcurrentPromisesTs # GetTs(S.cpts, K)
       THEN [S EXCEPT !.muts[m] =
               DoneMutate(mu, IF Truthy(error) THEN "threw" ELSE "returned",
                          IF Truthy(error) THEN error ELSE data)]
       ELSE
         LET src == MutSrc(S, m)
             S1 == [S EXCEPT
                      !.cache = MutateCacheSet(@, data, error),
                      !.mend = Put(@, K, S.now - 1),
                      !.cacheSrc = IF data # Undef THEN src ELSE @,
                      !.errEvt.any = error,
                      !.muts[m].committed = TRUE,
                      !.calls = [c \in DOMAIN @ |->
                                   IF @[c].pc = "done" \/ data = Undef THEN @[c]
                                   ELSE [@[c] EXCEPT !.ovl = TRUE]] \o <<>>]
         IN IF Has(S1.updaters, K)
            THEN LET S2 == UpdateAll(S1, S1.updaters[K], 1,
                                     mu.shouldRevalidate, data, error, m, src)
                     S3 == [S2 EXCEPT !.muts[m].pc = "awaitRevals"]
                 IN IF Pending(S3, m) = {}
                    THEN [S3 EXCEPT
                            !.micro = Append(@, [k |-> "mutfin", id |-> m])]
                    ELSE S3
            ELSE [S1 EXCEPT !.muts[m] =
                    DoneMutate(S1.muts[m],
                               IF Truthy(error) THEN "threw" ELSE "returned",
                               IF Truthy(error) THEN error ELSE data)]

\* mutate(key, _data, shouldRevalidate) with _data defined, up to its await:
\* the window is opened and the timestamps are snapshotted.  A plain value
\* is not awaited, so the call runs on to its Promise.all.
MutateBegin(S, kind, v, shouldRevalidate) ==
    LET m == Len(S.muts) + 1
        rec == [kind |-> kind, shouldRevalidate |-> shouldRevalidate,
                beforeMutationTs |-> S.now - 1,
                beforeConcurrentPromisesTs |-> GetTs(S.cpts, K),
                pc |-> "awaitValue",
                data |-> IF kind = "plain" THEN v ELSE Undef,
                error |-> Undef, outcome |-> "pending", result |-> Undef,
                at |-> S.now, committed |-> FALSE, superseded |-> FALSE,
                laterMut |-> FALSE]
        marked == [i \in DOMAIN S.muts |->
                     IF S.muts[i].pc = "done" THEN S.muts[i]
                     ELSE [S.muts[i] EXCEPT
                             !.superseded = TRUE,
                             !.laterMut = @ \/ S.muts[i].pc = "awaitValue"]]
                  \o <<>>
        S1 == [S EXCEPT
                 !.mts = Put(@, K, S.now - 1),
                 !.mend = Put(@, K, 0),
                 !.muts = Append(marked, rec)]
    IN IF kind = "plain" THEN MutateSettled(S1, m) ELSE S1

\* A then-callback that resolves with the mutate's own data.
MutateFinishReturnsData(S, m) ==
    LET error == S.muts[m].error
    IN [S EXCEPT !.muts[m] =
          DoneMutate(S.muts[m], IF Truthy(error) THEN "threw" ELSE "returned",
                     IF Truthy(error) THEN error ELSE S.muts[m].data)]

\* The then-callback of Promise.all(promises) in mutate.
MutateFinish(S, m) ==
    LET error == S.muts[m].error
    IN [S EXCEPT !.muts[m] =
          DoneMutate(S.muts[m], IF Truthy(error) THEN "threw" ELSE "returned",
                     IF Truthy(error) THEN error ELSE Get(S.cache, K))]

\* trigger(K, shouldRevalidate): every updater of K is called with the
\* cached data and error; the promise resolves with cache.get(K) once the
\* updaters' promises have.  The activation is kept with those of mutate.
Trigger(S, shouldRevalidate) ==
    LET m == Len(S.muts) + 1
        rec == [kind |-> "trigger", shouldRevalidate |-> shouldRevalidate,
                beforeMutationTs |-> 0, beforeConcurrentPromisesTs |-> 0,
                pc |-> "loop", data |-> Undef, error |-> Undef,
                outcome |-> "pending", result |-> Undef, at |-> S.now,
                committed |-> FALSE, superseded |-> FALSE, laterMut |-> FALSE]
    IN IF Has(S.updaters, K)
       THEN LET S1 == [S EXCEPT !.muts = Append(@, rec)]
                S2 == UpdateAll(S1, S1.updaters[K], 1, shouldRevalidate,
                                Get(S.cache, K), Get(S.cache, KeyErr), m,
                                S.cacheSrc)
                S3 == [S2 EXCEPT !.muts[m].pc = "awaitRevals"]
            IN IF Pending(S3, m) = {}
               THEN [S3 EXCEPT !.micro = Append(@, [k |-> "mutfin", id |-> m])]
               ELSE S3
       ELSE [S EXCEPT !.muts =
               Append(@, DoneMutate(rec, "returned", Get(S.cache, K)))]

\* mutate(K, undefined, shouldRevalidate): with no new data mutate is trigger.
MutateNoData(S, shouldRevalidate) == Trigger(S, shouldRevalidate)

\* ------------------------------------------------------- mount and unmount
\* The first render and the mount effect of useSWR(K, fn) with no
\* initialData: the state is read from the cache, the hook revalidates
\* (at once without cached data, in an idle callback with it) unless
\* revalidateOnMount is false, and registers its callbacks.  With an empty
\* key the effect returns at once: nothing is registered.
\* addRevalidator, for the key K.
AddRevalidator(revalidators, h) ==
    Put(revalidators, K,
        IF Has(revalidators, K) THEN Append(revalidators[K], h) ELSE <<h>>)

MountHook(S, h, key, fn, revalidateOnMount) ==
    LET initialData == Get(S.cache, key)
        S1 == [S EXCEPT !.hooks[h] =
                 [status |-> "mounted", key |-> key, fn |-> fn,
                  data |-> initialData,
                  error |-> Get(S.cache, SerializeKey(key).errKey),
                  isValidating |-> FALSE,
                  src |-> IF initialData # Undef THEN S.cacheSrc ELSE NoSrc]]
        S2 == IF ~revalidateOnMount THEN S1
              ELSE IF initialData # Undef
              THEN [S1 EXCEPT !.timers = @ \cup
                      {[kind |-> "idle", at |-> S.now, hook |-> h,
                        dedupe |-> TRUE, retryCount |-> 0, id |-> 0]}]
              ELSE RevalBegin(S1, h, TRUE, 0, 0)
    IN IF key = <<>> THEN S1
       ELSE [S2 EXCEPT
               !.focusRevalidators = AddRevalidator(@, h),
               !.reconnectRevalidators = AddRevalidator(@, h),
               !.updaters = AddRevalidator(@, h),
               !.registered = Append(@, h)]

\* A removeRevalidator that closes the gap, keeping the order of the rest.
RemoveRevalidatorShifts(list, h) == SelectSeq(list, LAMBDA x : x # h)

\* removeRevalidator: the last callback takes the removed one's place.
RemoveRevalidator(list, h) ==
    IF \E i \in 1..Len(list) : list[i] = h
    THEN LET index == CHOOSE i \in 1..Len(list) :
                        list[i] = h /\ \A j \in 1..(i - 1) : list[j] # h
             moved == [list EXCEPT ![index] = list[Len(list)]]
         IN SubSeq(moved, 1, Len(list) - 1)
    ELSE list

\* The cleanup of the mount effect.  The timer of a removed onFocus resets a
\* flag nothing reads any more: it is dropped with the callback.
UnmountHook(S, h) ==
    [S EXCEPT !.hooks[h].status = "unmounted",
              !.focusRevalidators =
                 IF Has(@, K) THEN Put(@, K, RemoveRevalidator(@[K], h))
                 ELSE @,
              !.reconnectRevalidators =
                 IF Has(@, K) THEN Put(@, K, RemoveRevalidator(@[K], h))
                 ELSE @,
              !.updaters = IF Has(@, K)
                           THEN Put(@, K, RemoveRevalidator(@[K], h))
                           ELSE @,
              !.timers = {t \in @ : ~(t.kind = "throttle" /\ t.hook = h)},
              !.registered = SelectSeq(@, LAMBDA x : x # h)]

\* ------------------------------------------------------------------ timers
\* `loading` of the revalidate call c: true until the call reaches the
\* `loading = false` before its `return true`.
Loading(S, c) == S.calls[c].pc # "done" \/ S.calls[c].ret = "false"

TimerFire(S, t) ==
    LET S1 == [S EXCEPT !.timers = @ \ {t}]
    IN CASE t.kind = "dedupe" ->
              [S1 EXCEPT !.cp = Del(@, K), !.cpts = Del(@, K)]
         [] t.kind = "slow" ->
              IF Loading(S1, t.id)
              THEN [S1 EXCEPT !.marks.slow = @ \cup {t.id}]
              ELSE S1
         [] t.kind = "throttle" -> S1
         [] OTHER -> RevalBegin(S1, t.hook, t.dedupe, t.retryCount, 0)

\* ------------------------------------------------------------ window events
\* onFocus of hook h; `pending` is true while its throttle timer is set.
OnFocus(S, h) ==
    IF \/ \E t \in S.timers : t.kind = "throttle" /\ t.hook = h
       \/ ~S.config.revalidateOnFocus
    THEN S
    ELSE [RevalBegin(S, h, TRUE, 0, 0) EXCEPT
            !.timers = @ \cup
               {[kind |-> "throttle",
                 at |-> S.now + S.config.focusThrottleInterval,
                 hook |-> h, dedupe |-> FALSE, retryCount |-> 0, id |-> 0]}]

\* onReconnect of hook h.
OnReconnect(S, h) ==
    IF S.config.revalidateOnReconnect THEN RevalBegin(S, h, TRUE, 0, 0)
    ELSE S

\* The listener of the window events: "focus" and "visibilitychange" go to
\* FOCUS_REVALIDATORS, "online" to RECONNECT_REVALIDATORS; the first
\* callback of each key is called.
RevalidateEvent(S, event) ==
    LET revalidators == IF event = "online" THEN S.reconnectRevalidators
                        ELSE S.focusRevalidators
    IN IF ~S.visible \/ ~S.online THEN S
       ELSE IF Has(revalidators, K) /\ revalidators[K] # <<>>
       THEN LET h == revalidators[K][1]
                S1 == IF event = "online" THEN OnReconnect(S, h)
                      ELSE OnFocus(S, h)
            IN [S1 EXCEPT !.marks.event =
                             @ \cup ((Len(S.calls) + 1)..Len(S1.calls))]
       ELSE S

\* The continuation at the head of the microtask queue runs to its end or
\* to its next await, until the queue is empty.
RECURSIVE Drain(_)
Drain(S) ==
    IF S.micro = <<>> THEN S
    ELSE LET job == Head(S.micro)
             S1 == [S EXCEPT !.micro = Tail(@)]
         IN Drain(CASE job.k = "reval" -> RevalResume(S1, job.id)
                    [] job.k = "mutate" -> MutateSettled(S1, job.id)
                    [] job.k = "mutfin" -> MutateFinish(S1, job.id))

\* A task ends: the microtasks it queued run, in order, and the variables
\* take the values the task leaves.
Install(S0) ==
    \E S \in {Collect(Drain(S0))} :
    /\ now' = S.now
    /\ cache' = S.cache
    /\ cp' = S.cp
    /\ cpts' = S.cpts
    /\ mts' = S.mts
    /\ mend' = S.mend
    /\ updaters' = S.updaters
    /\ hooks' = S.hooks
    /\ fetches' = S.fetches
    /\ calls' = S.calls
    /\ muts' = S.muts
    /\ timers' = S.timers
    /\ config' = S.config
    /\ visible' = S.visible
    /\ cacheSrc' = S.cacheSrc
    /\ errEvt' = S.errEvt
    /\ table' = S.table
    /\ counter' = S.counter
    /\ bcast' = S.bcast
    /\ registered' = S.registered
    /\ returned' = S.returned
    /\ listeners' = S.listeners
    /\ focusRevalidators' = S.focusRevalidators
    /\ reconnectRevalidators' = S.reconnectRevalidators
    /\ online' = S.online
    /\ marks' = S.marks

\* ------------------------------------------------------------------ actions
\* No broadcastState loop is running.
\* history in it: the list and the registration order when the loop began,
\* the calls it made, and whether the list was changed while it ran.
NoBroadcast ==
    [on |-> FALSE, i |-> 0, data |-> Undef, error |-> Undef,
     snapshot |-> <<>>, order |-> <<>>, invoked |-> <<>>, touched |-> FALSE]

\* What a call returned: a value (ret), a boolean (bool) or an array of
\* keys (keys), according to the operation.
NoResult ==
    [op |-> "none", ret |-> Undef, bool |-> FALSE, keys |-> {}, text |-> <<>>]
Returned(op, ret) == [NoResult EXCEPT !.op = op, !.ret = ret]

\* new Cache(): no listener.  list is __listeners; subs has one entry per
\* subscribe call, the listener it was given and the isSubscribed of the
\* unsubscribe function it returned; calls is history, the listeners the
\* last notify() invoked, in order.
NoListeners == [list |-> <<>>, subs |-> <<>>, calls |-> <<>>]

\* The module-level state of hash (an empty WeakMap, counter = 0), no
\* broadcast running, nothing registered, nothing called and nothing
\* subscribed yet, the browser online.
InitLibs ==
    /\ table = EmptyMap
    /\ counter = 0
    /\ bcast = NoBroadcast
    /\ registered = <<>>
    /\ returned = NoResult
    /\ listeners = NoListeners
    /\ focusRevalidators = EmptyMap
    /\ reconnectRevalidators = EmptyMap
    /\ online = TRUE
    /\ marks = [slow |-> {}, event |-> {}]

Init ==
    /\ now = StartTime
    /\ cache = EmptyMap
    /\ cp = EmptyMap
    /\ cpts = EmptyMap
    /\ mts = EmptyMap
    /\ mend = EmptyMap
    /\ updaters = EmptyMap
    /\ hooks = [h \in Hooks |->
                  [status |-> "fresh", key |-> K, fn |-> TRUE,
                   data |-> Undef, error |-> Undef,
                   isValidating |-> FALSE, src |-> NoSrc]]
    /\ fetches = <<>>
    /\ calls = <<>>
    /\ muts = <<>>
    /\ timers = {}
    /\ config = NoRetryConfig
    /\ visible = TRUE
    /\ cacheSrc = NoSrc
    /\ errEvt = [fetch |-> "none", any |-> "none"]
    /\ InitLibs

\* The operations of one behaviour: c revalidate calls made from outside or
\* from a timer and m mutate calls, with c / MaxCalls + m / MaxMutates <= 1.
\* The revalidate calls a mutate makes itself are not counted.
TopCalls == Cardinality({c \in 1..Len(calls) : calls[c].parent = 0})
Affordable(c, m) == c * MaxMutates + m * MaxCalls <= MaxCalls * MaxMutates
CanCall == Affordable(TopCalls + 1, Len(muts))
CanMutate == Affordable(TopCalls, Len(muts) + 1)

\* Date.now() advances.
Tick ==
    /\ now < MaxTime
    /\ Install([State EXCEPT !.now = @ + 1])

\* A component using useSWR(K, fn, {revalidateOnMount: false}) mounts; the
\* revalidation a hook asks for when it mounts is the action Revalidate.
\* Hooks are interchangeable, so they mount in the order of HookOrder.
Mount ==
    /\ \E i \in 1..Len(HookOrder) :
         /\ hooks[HookOrder[i]].status = "fresh"
         /\ \A j \in 1..(i - 1) : hooks[HookOrder[j]].status # "fresh"
         /\ Install(MountHook(State, HookOrder[i], K, TRUE, FALSE))

Unmount ==
    /\ \E h \in Hooks :
         /\ hooks[h].status = "mounted"
         /\ Install(UnmountHook(State, h))

\* The revalidate function a hook returned is called by its owner.
Revalidate ==
    /\ CanCall
    /\ \E h \in Hooks, dedupe \in BOOLEAN :
         /\ hooks[h].status # "fresh"
         /\ Install(RevalBegin(State, h, dedupe, 0, 0))

\* mutate(K, data, shouldRevalidate) is called with a plain value, or with a
\* function or promise whose value arrives later.
Mutate ==
    /\ CanMutate
    /\ \E kind \in {"plain", "async"}, v \in Values, shouldRevalidate \in BOOLEAN :
         /\ kind = "async" => v = CHOOSE x \in Values : TRUE
         /\ Install(MutateBegin(State, kind, v, shouldRevalidate))

\* The values of Math.random() tried when a retry is scheduled.
RetryRands == {0, RandDen \div 2}

\* The promise of fetch f settles: the calls awaiting it are resumed in the
\* order in which they began to wait.
SettleFetch(S, f, ok, v, rnd) ==
    LET waiting == {c \in 1..Len(S.calls) :
                      S.calls[c].pc = "await" /\ S.calls[c].fetch = f}
        queue == [i \in 1..Cardinality(waiting) |->
                    [k |-> "reval",
                     id |-> CHOOSE c \in waiting :
                              Cardinality({d \in waiting : d < c}) = i - 1]]
                 \o <<>>
    IN [S EXCEPT
          !.fetches[f].state = IF ok THEN "resolved" ELSE "rejected",
          !.fetches[f].val = IF ok THEN v ELSE FetchErr(f),
          !.micro = queue, !.rnd = rnd]

\* The promise of a fetch settles: it resolves with a value or rejects.
FetchSettle ==
    /\ \E f \in 1..Len(fetches), ok \in BOOLEAN, v \in Values, rnd \in RetryRands :
         /\ fetches[f].state = "pending"
         /\ ~ok => v = CHOOSE x \in Values : TRUE
         /\ (ok \/ ~config.shouldRetryOnError) => rnd = 0
         /\ Install(SettleFetch(State, f, ok, v, rnd))

\* The value a mutate awaits settles: it resolves with a value or rejects.
SettleMutate(S, m, ok, v) ==
    [S EXCEPT !.muts[m].data = IF ok THEN v ELSE Undef,
              !.muts[m].error = IF ok THEN Undef ELSE MutErr(m),
              !.micro = <<[k |-> "mutate", id |-> m]>>]

MutateValueSettle ==
    /\ \E m \in 1..Len(muts), ok \in BOOLEAN, v \in Values :
         /\ muts[m].pc = "awaitValue"
         /\ ~ok => v = CHOOSE x \in Values : TRUE
         /\ Install(SettleMutate(State, m, ok, v))

\* A timer whose delay has elapsed runs its callback.
Timer ==
    /\ \E t \in timers :
         /\ t.at <= now
         /\ t.kind \in {"idle", "retry"} => CanCall
         /\ Install(TimerFire(State, t))

Next ==
    \/ Tick
    \/ Mount
    \/ Revalidate
    \/ Mutate
    \/ FetchSettle
    \/ MutateValueSettle
    \/ Timer

Spec == Init /\ [][Next]_vars

\* ------------------------------------------------- the life of the hooks
\* useSWR(key, fn, config) mounts: with the key K or an empty key, with or
\* without a fetcher, revalidating on mount or not.
MountAny ==
    /\ \E i \in 1..Len(HookOrder), key \in {K, <<>>}, fn \in BOOLEAN,
          revalidateOnMount \in BOOLEAN :
         /\ hooks[HookOrder[i]].status = "fresh"
         /\ \A j \in 1..(i - 1) : hooks[HookOrder[j]].status # "fresh"
         /\ key = <<>> => (fn /\ ~revalidateOnMount)
         /\ revalidateOnMount => CanCall
         /\ Install(MountHook(State, HookOrder[i], key, fn, revalidateOnMount))

\* trigger(K, shouldRevalidate) or mutate(K, undefined, shouldRevalidate).
TriggerCall ==
    /\ CanMutate
    /\ \E shouldRevalidate \in BOOLEAN, viaMutate \in BOOLEAN :
         Install(IF viaMutate THEN MutateNoData(State, shouldRevalidate)
                 ELSE Trigger(State, shouldRevalidate))

NextLife ==
    \/ MountAny
    \/ Unmount
    \/ Revalidate
    \/ TriggerCall
    \/ Mutate
    \/ MutateValueSettle
    \/ FetchSettle
    \/ Timer

SpecLife == Init /\ [][NextLife]_vars

\* ------------------------------------------------------------ error retry
\* The hooks are created with the default shouldRetryOnError: true and with
\* errorRetryCount unset or set; the document is visible or hidden.
InitRetry ==
    /\ now = StartTime
    /\ cache = EmptyMap
    /\ cp = EmptyMap
    /\ cpts = EmptyMap
    /\ mts = EmptyMap
    /\ mend = EmptyMap
    /\ updaters = EmptyMap
    /\ hooks = [h \in Hooks |->
                  [status |-> "fresh", key |-> K, fn |-> TRUE,
                   data |-> Undef, error |-> Undef,
                   isValidating |-> FALSE, src |-> NoSrc]]
    /\ fetches = <<>>
    /\ calls = <<>>
    /\ muts = <<>>
    /\ timers = {}
    /\ config \in {DefaultConfig} \cup
                  {[DefaultConfig EXCEPT !.hasErrorRetryCount = TRUE,
                                         !.errorRetryCount = n] :
                     n \in 0..MaxErrorRetryCount}
    /\ visible \in BOOLEAN
    /\ cacheSrc = NoSrc
    /\ errEvt = [fetch |-> "none", any |-> "none"]
    /\ InitLibs

TickRetry ==
    /\ now < MaxRetryTime
    /\ Install([State EXCEPT !.now = @ + 1])

\* Where retries are followed, the owner's calls are the first calls of a
\* behaviour: the later ones are the retries.
RevalidateFirst ==
    /\ Len(calls) < 2
    /\ Revalidate

\* revalidate is called and the fetcher throws.
RevalidateThrows ==
    /\ calls = <<>>
    /\ \E h \in Hooks, dedupe \in BOOLEAN, rnd \in RetryRands :
         /\ hooks[h].status # "fresh"
         /\ Install(RevalThrow([State EXCEPT !.rnd = rnd], h, dedupe, 0, 0))

NextRetry ==
    \/ TickRetry
    \/ Mount
    \/ RevalidateFirst
    \/ RevalidateThrows
    \/ FetchSettle
    \/ Timer

SpecRetry == InitRetry /\ [][NextRetry]_vars

\* ---------------------------------------------------- overlapping calls
\* One revalidate call of the program and two mutate calls, made in any order
\* within one millisecond once every hook is mounted; what they wait for
\* arrives at any later time.

RevalidateOnce ==
    /\ now = StartTime
    /\ TopCalls = 0
    /\ \A h \in Hooks : hooks[h].status = "mounted"
    /\ \E h \in Hooks, dedupe \in BOOLEAN :
         /\ Install(RevalBegin(State, h, dedupe, 0, 0))

MutateTwice ==
    /\ now = StartTime
    /\ Len(muts) < MaxMutates
    /\ \A h \in Hooks : hooks[h].status = "mounted"
    /\ \E kind \in {"plain", "async"}, v \in Values, shouldRevalidate \in BOOLEAN :
         /\ kind = "async" => v = CHOOSE x \in Values : TRUE
         /\ Install(MutateBegin(State, kind, v, shouldRevalidate))

NextOverlap ==
    \/ Tick
    \/ Mount
    \/ RevalidateOnce
    \/ MutateTwice
    \/ FetchSettle
    \/ MutateValueSettle
    \/ Timer

SpecOverlap == Init /\ [][NextOverlap]_vars

\* ------------------------------------------------------- slow loading
\* Hooks created with {shouldRetryOnError: false, loadingTimeout:
\* LoadingTimeout}.
InitSlow ==
    /\ now = StartTime
    /\ cache = EmptyMap
    /\ cp = EmptyMap
    /\ cpts = EmptyMap
    /\ mts = EmptyMap
    /\ mend = EmptyMap
    /\ updaters = EmptyMap
    /\ hooks = [h \in Hooks |->
                  [status |-> "fresh", key |-> K, fn |-> TRUE,
                   data |-> Undef, error |-> Undef,
                   isValidating |-> FALSE, src |-> NoSrc]]
    /\ fetches = <<>>
    /\ calls = <<>>
    /\ muts = <<>>
    /\ timers = {}
    /\ config = [NoRetryConfig EXCEPT !.loadingTimeout = LoadingTimeout]
    /\ visible = TRUE
    /\ cacheSrc = NoSrc
    /\ errEvt = [fetch |-> "none", any |-> "none"]
    /\ InitLibs

SpecSlow == InitSlow /\ [][Next]_vars

\* ---------------------------------------------- focus and reconnection
\* Hooks that revalidate on focus and on reconnection, or on neither.
InitEvents ==
    /\ now = StartTime
    /\ cache = EmptyMap
    /\ cp = EmptyMap
    /\ cpts = EmptyMap
    /\ mts = EmptyMap
    /\ mend = EmptyMap
    /\ updaters = EmptyMap
    /\ hooks = [h \in Hooks |->
                  [status |-> "fresh", key |-> K, fn |-> TRUE,
                   data |-> Undef, error |-> Undef,
                   isValidating |-> FALSE, src |-> NoSrc]]
    /\ fetches = <<>>
    /\ calls = <<>>
    /\ muts = <<>>
    /\ timers = {}
    /\ config \in {NoRetryConfig,
                   [NoRetryConfig EXCEPT !.revalidateOnFocus = FALSE,
                                         !.revalidateOnReconnect = FALSE]}
    /\ visible = TRUE
    /\ cacheSrc = NoSrc
    /\ errEvt = [fetch |-> "none", any |-> "none"]
    /\ InitLibs

\* The window gets the focus.
Focus ==
    /\ CanCall
    /\ Install(RevalidateEvent(State, "focus"))

\* The document is hidden or shown.
VisibilityChange ==
    /\ CanCall
    /\ Install(RevalidateEvent([State EXCEPT !.visible = ~@],
                               "visibilitychange"))

\* The browser loses the network.
Offline ==
    /\ online
    /\ Install([State EXCEPT !.online = FALSE])

\* The browser gets the network back.
Online ==
    /\ ~online
    /\ CanCall
    /\ Install(RevalidateEvent([State EXCEPT !.online = TRUE], "online"))

NextEvents ==
    \/ Tick
    \/ Mount
    \/ Unmount
    \/ RevalidateFirst
    \/ Focus
    \/ VisibilityChange
    \/ Offline
    \/ Online
    \/ FetchSettle
    \/ Timer

SpecEvents == InitEvents /\ [][NextEvents]_vars

\* ------------------------------------------- rejections of any reason
\* The value a mutate awaits rejects with a falsy reason: Promise.reject(null),
\* or a producer that throws null.
MutateValueRejectsFalsy ==
    /\ \E m \in 1..Len(muts) :
         /\ muts[m].pc = "awaitValue"
         /\ Install([State EXCEPT
              !.muts[m].data = Undef,
              !.muts[m].error = Null,
              !.micro = <<[k |-> "mutate", id |-> m]>>])

NextReject ==
    \/ Tick
    \/ Mount
    \/ Revalidate
    \/ Mutate
    \/ FetchSettle
    \/ MutateValueSettle
    \/ MutateValueRejectsFalsy
    \/ Timer

SpecReject == Init /\ [][NextReject]_vars

\* The delays onErrorRetry computes: one call of onErrorRetry for a failed
\* revalidate call, with every retryCount and every value of Math.random().
InitBackoff ==
    /\ now = StartTime
    /\ cache = EmptyMap
    /\ cp = EmptyMap
    /\ cpts = EmptyMap
    /\ mts = EmptyMap
    /\ mend = EmptyMap
    /\ updaters = EmptyMap
    /\ hooks = [h \in Hooks |->
                  [status |-> "fresh", key |-> K, fn |-> TRUE,
                   data |-> Undef, error |-> Undef,
                   isValidating |-> FALSE, src |-> NoSrc]]
    /\ fetches = <<>>
    /\ calls = <<DoneCall("true", 0)>>
    /\ muts = <<>>
    /\ timers = {}
    /\ config \in {[DefaultConfig EXCEPT !.errorRetryInterval = i] :
                     i \in 1..(ErrorRetryInterval + 2)}
    /\ visible = TRUE
    /\ cacheSrc = NoSrc
    /\ errEvt = [fetch |-> "none", any |-> "none"]
    /\ InitLibs

Backoff ==
    /\ timers = {}
    /\ \E rnd \in 0..(RandDen - 1), retryCount \in 0..MaxRetryCount :
         Install(OnErrorRetry([State EXCEPT !.rnd = rnd], 1,
                              [dedupe |-> TRUE, retryCount |-> retryCount]))

NextBackoff == Backoff

SpecBackoff == InitBackoff /\ [][NextBackoff]_vars

\* ------------------------------------------------- equal values delivered
\* The fetcher and the callers of mutate produce values that are equal under
\* compare without being the same object.
EqualValues == {"A", "A'", "B"}

FetchSettleEqual ==
    /\ \E f \in 1..Len(fetches), v \in EqualValues :
         /\ fetches[f].state = "pending"
         /\ Install(SettleFetch(State, f, TRUE, v, 0))

MutateEqual ==
    /\ CanMutate
    /\ \E v \in EqualValues, shouldRevalidate \in BOOLEAN :
         Install(MutateBegin(State, "plain", v, shouldRevalidate))

NextCompare ==
    \/ Mount
    \/ Revalidate
    \/ MutateEqual
    \/ FetchSettleEqual

SpecCompare == Init /\ [][NextCompare]_vars

\* ------------------------------------------- broadcastState, step by step
\* broadcastState(K, data, error) as the loop it is: `updaters` is the array
\* in CACHE_REVALIDATORS itself, read again at every turn, so what a callback
\* (or what its dispatch makes React do: mount and unmount components)
\* registers or unregisters meanwhile is seen by the loop.
BroadcastBegin(S, data, error) ==
    [S EXCEPT !.bcast =
       [on |-> Has(S.updaters, K), i |-> 1, data |-> data, error |-> error,
        snapshot |-> IF Has(S.updaters, K) THEN S.updaters[K] ELSE <<>>,
        order |-> S.registered, invoked |-> <<>>, touched |-> FALSE]]

BroadcastTurn(S) ==
    LET b == S.bcast
        list == S.updaters[K]
    IN IF b.i > Len(list)
       THEN [S EXCEPT !.bcast.on = FALSE]
       ELSE [OnUpdate(S, list[b.i], FALSE, b.data, b.error, TRUE, 0, NoSrc)
               EXCEPT !.bcast.i = b.i + 1,
                      !.bcast.invoked =
                         Append(@, [cb |-> list[b.i], data |-> b.data,
                                    error |-> b.error])]

\* The components whose callbacks are registered and unregistered.
RegistryHooks == {"h1", "h2", "h3"}

InitRegistry ==
    /\ now = StartTime
    /\ cache = EmptyMap
    /\ cp = EmptyMap
    /\ cpts = EmptyMap
    /\ mts = EmptyMap
    /\ mend = EmptyMap
    /\ updaters = EmptyMap
    /\ hooks = [h \in RegistryHooks |->
                  [status |-> "fresh", key |-> K, fn |-> TRUE,
                   data |-> Undef, error |-> Undef,
                   isValidating |-> FALSE, src |-> NoSrc]]
    /\ fetches = <<>>
    /\ calls = <<>>
    /\ muts = <<>>
    /\ timers = {}
    /\ config = NoRetryConfig
    /\ visible = TRUE
    /\ cacheSrc = NoSrc
    /\ errEvt = [fetch |-> "none", any |-> "none"]
    /\ InitLibs

\* A component using useSWR(K, fn, {revalidateOnMount: false}) mounts: its
\* effect registers its callbacks.
Register ==
    \E h \in RegistryHooks :
       /\ hooks[h].status # "mounted"
       /\ Install([MountHook(State, h, K, TRUE, FALSE)
                     EXCEPT !.bcast.touched = @ \/ bcast.on])

\* A component unmounts: the cleanup of its effect unregisters them.
Unregister ==
    \E h \in RegistryHooks :
       /\ hooks[h].status = "mounted"
       /\ Install([UnmountHook(State, h)
                     EXCEPT !.bcast.touched = @ \/ bcast.on])

Broadcast ==
    /\ ~bcast.on
    /\ \E data \in Values : Install(BroadcastBegin(State, data, Undef))

BroadcastNext ==
    /\ bcast.on
    /\ Install(BroadcastTurn(State))

NextRegistry ==
    \/ Register
    \/ Unregister
    \/ Broadcast
    \/ BroadcastNext

SpecRegistry == InitRegistry /\ [][NextRegistry]_vars

\* ------------------------------------------------- operations on any key
\* serializeKey in the state: hash may number a new object in its WeakMap.
Serialized(S, key) == SerializeAnyKey(key, S.table, S.counter)

Hashed(S, key) ==
    [S EXCEPT !.table = Serialized(S, key).table,
              !.counter = Serialized(S, key).counter]

\* trigger(_key, shouldRevalidate) and mutate(_key, _data, shouldRevalidate)
\* begin with serializeKey and return at once, with undefined, when the
\* canonical key is empty.
TriggerOn(S, key, shouldRevalidate) ==
    IF Serialized(S, key).key = <<>>
    THEN [Hashed(S, key) EXCEPT !.returned = Returned("trigger", Undef)]
    ELSE Trigger(Hashed(S, key), shouldRevalidate)

MutateOn(S, key, v, shouldRevalidate) ==
    IF Serialized(S, key).key = <<>>
    THEN [Hashed(S, key) EXCEPT !.returned = Returned("mutate", Undef)]
    ELSE IF v = Undef THEN TriggerOn(S, key, shouldRevalidate)
    ELSE MutateBegin(Hashed(S, key), "plain", v, shouldRevalidate)

\* useSWR(_key, fn): the render serializes the key.
MountOn(S, h, key, fn, revalidateOnMount) ==
    MountHook(Hashed(S, key), h, Serialized(S, key).key, fn,
              revalidateOnMount)

\* The keys the operations are called with: the text of K, the keys that
\* are empty, and key functions that return or throw.
KeySamples ==
    {StringKey(K), StringKey(<<>>), NullKey,
     FunctionKey(FALSE, StringKey(K)), FunctionKey(FALSE, NullKey),
     FunctionKey(TRUE, StringKey(K)), FunctionKey(TRUE, NullKey)}

MountKey ==
    /\ \E i \in 1..Len(HookOrder), key \in KeySamples :
         /\ hooks[HookOrder[i]].status = "fresh"
         /\ \A j \in 1..(i - 1) : hooks[HookOrder[j]].status # "fresh"
         /\ Install(MountOn(State, HookOrder[i], key, TRUE, FALSE))

MutateKey ==
    /\ CanMutate
    /\ \E key \in KeySamples, v \in Values \cup {Undef},
          shouldRevalidate \in BOOLEAN :
         Install(MutateOn(State, key, v, shouldRevalidate))

TriggerKey ==
    /\ CanMutate
    /\ \E key \in KeySamples, shouldRevalidate \in BOOLEAN :
         Install(TriggerOn(State, key, shouldRevalidate))

NextKeys ==
    \/ MountKey
    \/ Revalidate
    \/ MutateKey
    \/ TriggerKey
    \/ FetchSettle

SpecKeys == Init /\ [][NextKeys]_vars

\* --------------------------------------------------------------- the Store
\* The listeners handed to subscribe are functions of the caller.  The ones
\* in OnceListeners call, when they are invoked, the unsubscribe function
\* their latest subscribe call returned; the others do nothing.
ListenerSamples == {"l1", "l2", "once"}
OnceListeners == {"once"}

\* subscribe(listener), for a listener that is a function.
CacheSubscribe(S, l) ==
    [S EXCEPT
       !.listeners.list = Append(@, l),
       !.listeners.subs = Append(@, [listener |-> l, isSubscribed |-> TRUE])]

\* The unsubscribe function that the s-th subscribe call returned.
CacheUnsubscribe(S, s) ==
    LET sub == S.listeners.subs[s]
        list == S.listeners.list
    IN IF ~sub.isSubscribed THEN S
       ELSE LET S1 == [S EXCEPT !.listeners.subs[s].isSubscribed = FALSE]
            IN IF \E i \in 1..Len(list) : list[i] = sub.listener
               THEN LET index == CHOOSE i \in 1..Len(list) :
                                   /\ list[i] = sub.listener
                                   /\ \A j \in 1..(i - 1) :
                                         list[j] # sub.listener
                        moved == [list EXCEPT ![index] = list[Len(list)]]
                    IN [S1 EXCEPT !.listeners.list =
                                     SubSeq(moved, 1, Len(list) - 1)]
               ELSE S1

\* The body of listener l runs.
Listen(S, l) ==
    LET S1 == [S EXCEPT !.listeners.calls = Append(@, l)]
        mine == {s \in 1..Len(S.listeners.subs) :
                   S.listeners.subs[s].listener = l}
    IN IF l \in OnceListeners
       THEN CacheUnsubscribe(S1, CHOOSE s \in mine : \A t \in mine : t <= s)
       ELSE S1

\* notify(): the for...of loop reads __listeners as it is at each turn.
RECURSIVE CacheNotify(_, _)
CacheNotify(S, i) ==
    IF i > Len(S.listeners.list) THEN S
    ELSE CacheNotify(Listen(S, S.listeners.list[i]), i + 1)

\* A method of Cache is entered: nothing is invoked yet.
CacheCall(S) == [S EXCEPT !.listeners.calls = <<>>]

\* The methods of Cache, called with keys of any kind.  Every method
\* serializes its key, which may number a new object in hash's WeakMap.
CacheGet(S, key) ==
    [Hashed(CacheCall(S), key) EXCEPT
       !.returned = Returned("get", Get(S.cache, Serialized(S, key).key))]

CacheSet(S, key, value) ==
    CacheNotify([Hashed(CacheCall(S), key) EXCEPT
                   !.cache = Put(@, Serialized(S, key).key, value),
                   !.returned = Returned("set", Undef)], 1)

CacheKeys(S) ==
    [CacheCall(S) EXCEPT !.returned = [Returned("keys", Undef) EXCEPT
                                          !.keys = DOMAIN S.cache]]

CacheHas(S, key) ==
    [Hashed(CacheCall(S), key) EXCEPT
       !.returned = [Returned("has", Undef) EXCEPT
                       !.bool = Has(S.cache, Serialized(S, key).key)]]

CacheClear(S) ==
    CacheNotify([CacheCall(S) EXCEPT !.cache = EmptyMap,
                                     !.returned = Returned("clear", Undef)],
                1)

CacheDelete(S, key) ==
    CacheNotify([Hashed(CacheCall(S), key) EXCEPT
                   !.cache = Del(@, Serialized(S, key).key),
                   !.returned = Returned("delete", Undef)], 1)

\* The keys and the values the Store is exercised with.
StoreKeys ==
    {StringKey(<<"a">>), FunctionKey(TRUE, NullKey),
     ArrayKey(<<ObjectArg("o1")>>), ArrayKey(<<ObjectArg("o2")>>)}

StoreValues == {"A", Undef, Null}

StoreGet == \E key \in StoreKeys : Install(CacheGet(State, key))
StoreSet ==
    \E key \in StoreKeys, value \in StoreValues :
       Install(CacheSet(State, key, value))
StoreKeysCall == Install(CacheKeys(State))
StoreHas == \E key \in StoreKeys : Install(CacheHas(State, key))
StoreClear == Install(CacheClear(State))
StoreDelete == \E key \in StoreKeys : Install(CacheDelete(State, key))

NextStore ==
    \/ StoreGet
    \/ StoreSet
    \/ StoreKeysCall
    \/ StoreHas
    \/ StoreClear
    \/ StoreDelete

SpecStore == Init /\ [][NextStore]_vars

\* ------------------------------------------------ the change-listeners
\* At most MaxSubscriptions subscribe calls are made.
MaxSubscriptions == 3

\* The key and the value the Store is written with while listeners listen.
ListenerKey == StringKey(<<"a">>)

ListenerSubscribe ==
    /\ Len(listeners.subs) < MaxSubscriptions
    /\ \E l \in ListenerSamples : Install(CacheSubscribe(State, l))

\* An unsubscribe function is called, for the first time or again.
ListenerUnsubscribe ==
    \E s \in 1..Len(listeners.subs) : Install(CacheUnsubscribe(State, s))

ListenerWrite ==
    \E op \in {"set", "delete", "clear"} :
       Install(CASE op = "set" -> CacheSet(State, ListenerKey, "A")
                 [] op = "delete" -> CacheDelete(State, ListenerKey)
                 [] op = "clear" -> CacheClear(State))

ListenerRead ==
    \E op \in {"get", "has", "keys"} :
       Install(CASE op = "get" -> CacheGet(State, ListenerKey)
                 [] op = "has" -> CacheHas(State, ListenerKey)
                 [] op = "keys" -> CacheKeys(State))

NextListeners ==
    \/ ListenerSubscribe
    \/ ListenerUnsubscribe
    \/ ListenerWrite
    \/ ListenerRead

SpecListeners == Init /\ [][NextListeners]_vars

\* ------------------------------------------------- data and error entries
\* cache.set(keyErr, error), as revalidate and mutate write the error of a
\* resource: keyErr is the third component of serializeKey(_key).
CacheSetError(S, key, error) ==
    [Hashed(S, key) EXCEPT
       !.cache = Put(@, Serialized(S, key).errKey, error),
       !.returned = Returned("setError", Undef)]

\* Keys of resources: any non-empty string is one.
SlotKeys ==
    {StringKey(<<"a">>), StringKey(<<"b">>), StringKey(ErrPrefix \o <<"a">>)}

SlotErrors == {FetchErr(1), Undef}

SlotSetData ==
    \E key \in SlotKeys, value \in Values :
       Install(CacheSet(State, key, value))

SlotSetError ==
    \E key \in SlotKeys, error \in SlotErrors :
       Install(CacheSetError(State, key, error))

SlotGet == \E key \in SlotKeys : Install(CacheGet(State, key))

NextSlots ==
    \/ SlotSetData
    \/ SlotSetError
    \/ SlotGet

SpecSlots == Init /\ [][NextSlots]_vars

\* ------------------------------------------------------------------- hash
\* hash(args) is called: it returns the text and may number new objects.
HashCall(S, args) ==
    [S EXCEPT !.table = Hash(args, S.table, S.counter).table,
              !.counter = Hash(args, S.table, S.counter).counter,
              !.returned = [Returned("hash", Undef) EXCEPT
                              !.text = Hash(args, S.table, S.counter).key]]

\* The elements of composite keys, and the composite keys of up to MaxArgs
\* elements.
MaxArgs == 2
HashArgs ==
    {StringArg(<<"a">>), NumberArg(0), NumberArg(1), NullArg, UndefinedArg,
     ObjectArg("o1"), ObjectArg("o2")}
HashInputs == UNION {[1..n -> HashArgs] : n \in 0..MaxArgs}

\* String keys, among them one that reads like a hash.
StringSamples == {<<"a">>, <<"a", "r", "g", "@", "0">>}

HashAny == \E args \in HashInputs : Install(HashCall(State, args))

NextHash == HashAny

SpecHash == Init /\ [][NextHash]_vars

\* =================================================================== claims
\* The revalidate calls and mutate calls that have not returned.
CallsOutstanding == {c \in DOMAIN calls : calls[c].pc # "done"}
MutatesOutstanding == {m \in DOMAIN muts : muts[m].pc # "done"}
FetchInFlight == \E f \in DOMAIN fetches : fetches[f].state = "pending"

\* C1 - deduplication: while a fetch for K is in flight, a revalidate call
\* made with dedupe: true invokes the fetcher no further time; it awaits a
\* promise that already exists.
C1_DedupeStartsNoFetch ==
    [][FetchInFlight =>
         \A c \in DOMAIN calls' :
            (c \notin DOMAIN calls /\ calls'[c].pc = "await"
               /\ calls'[c].dedupe)
            => calls'[c].shouldDeduping]_vars

\* C2 - last-started-wins: the value of a fetch is never written to the
\* Store over the value of a fetch that started later.
C2_LastStartedWins ==
    [][(cacheSrc.k = "fetch" /\ cacheSrc'.k = "fetch")
         => cacheSrc'.at >= cacheSrc.at]_vars

\* C3 - a fetch that was in flight when a mutate committed a value never
\* writes its result over that value: when its call resumes, the Store
\* keeps the value it has.
C3_OverlappingFetchDiscarded ==
    [][\A c \in DOMAIN calls :
          (calls[c].pc = "await" /\ calls[c].ovl /\ calls'[c].pc = "done")
          => (cacheSrc' = cacheSrc /\ Get(cache', K) = Get(cache, K))]_vars

\* C4 - mutation precedence: a mutate whose value resolved to a defined V,
\* with no fetch and no other mutate started after it began, completes with
\* Store[K] = V and with every mounted hook handed V.
C4_MutationPrecedence ==
    [][\A m \in DOMAIN muts' :
          (/\ muts'[m].pc = "done"
           /\ muts'[m].data # Undef
           /\ m \in DOMAIN muts => (muts[m].pc # "done" /\ ~muts[m].superseded))
          => (/\ Get(cache', K) = muts'[m].data
              /\ \A h \in Hooks :
                    hooks'[h].status = "mounted"
                    => (/\ hooks'[h].data = muts'[m].data
                        /\ hooks'[h].src =
                             [k |-> "mutate",
                              at |-> IF m \in DOMAIN muts THEN muts[m].at
                                     ELSE now]))]_vars

\* C5 - mutation abandonment: a mutate that was still awaiting its value
\* when another mutate began never writes the value it resolves to into the
\* Store.
C5_AbandonedNeverCommits ==
    [][\A m \in DOMAIN muts :
          (muts[m].laterMut /\ muts'[m].data # Undef)
          => (~muts'[m].committed /\ cacheSrc' = cacheSrc)]_vars

\* C6 - monotonic order: the start time of the operation whose value the
\* Store holds, and of the one whose value a hook was last handed, never
\* goes backwards.
C6_NeverBackwards ==
    [][/\ cacheSrc'.at >= cacheSrc.at
       /\ \A h \in Hooks : hooks'[h].src.at >= hooks[h].src.at]_vars

\* C7 - convergence: with no revalidate and no mutate call outstanding,
\* every mounted hook holds data equal under compare to Store[K], when that
\* is defined, and the error stored under ErrorKey.
C7_Convergence ==
    (CallsOutstanding = {} /\ MutatesOutstanding = {})
    => \A h \in Hooks :
          hooks[h].status = "mounted"
          => (/\ Get(cache, K) # Undef => Compare(hooks[h].data, Get(cache, K))
              /\ hooks[h].error = Get(cache, KeyErr))

\* C8, as the spec states it - the ErrorKey entry is the outcome of the
\* fetch attempt that completed last: undefined after a success, the error
\* after a failure.
C8_ErrorKeyOfLastFetch ==
    errEvt.fetch # "none" => Get(cache, KeyErr) = errEvt.fetch

\* C8, amended - the ErrorKey entry is the outcome of the last of these
\* events: a fetch succeeded and its result was accepted (undefined), a fetch
\* failed (its error), a mutate persisted its change (the error it caught,
\* undefined without one).  Before any of them it is undefined.
C8_ErrorKeyOfLastWrite ==
    Get(cache, KeyErr) = IF errEvt.any = "none" THEN Undef ELSE errEvt.any

\* A fetch failed, and later a mutate that caught no error persisted its
\* change: ErrorKey is undefined although the last fetch attempt failed.
C8_Witness ==
    /\ errEvt.fetch \notin {"none", Undef}
    /\ errEvt.any = Undef
    /\ Get(cache, KeyErr) = Undef
    /\ \E m \in DOMAIN muts : muts[m].committed

\* C9 - MUTATION_END_TS[K] is 0 only while a mutate call on K is
\* outstanding: once every mutate call has returned it is non-zero.
C9_WindowClosedWhenIdle ==
    (Has(mend, K) /\ MutatesOutstanding = {}) => mend[K] # 0

\* C10 - every mutate that opens a window sets MUTATION_TS[K] to a value
\* strictly greater than the one the mutate before it set.
C10_StartStrictlyIncreases ==
    [][(Len(muts') > Len(muts) /\ Has(mts, K)) => mts'[K] > mts[K]]_vars

\* A hook whose revalidate is a no-op: it has an empty key or no fetcher,
\* or it has been unmounted.
Inactive(h) ==
    \/ hooks[h].key = <<>>
    \/ ~hooks[h].fn
    \/ hooks[h].status = "unmounted"

\* C11 - a revalidate call of a hook with an empty key, without a fetcher or
\* unmounted returns false and changes neither the Store, nor the in-flight
\* registry, nor the mutation ledger, nor any hook's state; the fetcher is
\* not invoked.
C11_NoOpRevalidate ==
    [][\A h \in Hooks, dedupe \in BOOLEAN :
          (/\ hooks[h].status # "fresh"
           /\ Inactive(h)
           /\ Install(RevalBegin(State, h, dedupe, 0, 0)))
          => (/\ calls' = Append(calls, DoneCall("false", 0))
              /\ cache' = cache /\ cp' = cp /\ cpts' = cpts
              /\ mts' = mts /\ mend' = mend
              /\ hooks' = hooks /\ fetches' = fetches
              /\ timers' = timers)]_vars

\* An unmounted hook, one without a fetcher or one with an empty key has
\* called revalidate and got false; the fetcher has never been invoked.
C11_Witness ==
    /\ fetches = <<>>
    /\ \E c \in DOMAIN calls : calls[c].ret = "false"
    /\ \E h \in Hooks : hooks[h].status = "unmounted"
    /\ \E h \in Hooks : hooks[h].status = "mounted" /\ ~hooks[h].fn
    /\ \E h \in Hooks : hooks[h].status = "mounted"

\* C12 - revalidate resolves to true exactly when a fetch attempt ran or was
\* joined and the call did not bail early: a no-op call resolves to false, a
\* call whose fetch failed resolves to true, and a call whose fetch
\* succeeded resolves to false when the result is discarded as stale (the
\* cache is then left as it was) and to true otherwise.
C12_ReturnValue ==
    [][/\ \A h \in Hooks, dedupe \in BOOLEAN :
             (/\ hooks[h].status # "fresh"
              /\ Install(RevalBegin(State, h, dedupe, 0, 0))
              /\ calls'[Len(calls) + 1].pc = "done")
             => IF Inactive(h)
                THEN calls'[Len(calls) + 1].ret = "false"
                ELSE /\ dedupe /\ Has(cp, K)
                     /\ calls'[Len(calls) + 1].ret = "true"
                          <=> ~ShouldIgnoreRequest(State, cpts[K])
       /\ \A c \in DOMAIN calls :
             (calls[c].pc = "await" /\ calls'[c].pc = "done")
             => IF Get(cache', KeyErr) = FetchErr(calls[c].fetch)
                THEN calls'[c].ret = "true"
                ELSE /\ calls'[c].ret = "true"
                          <=> ~ShouldIgnoreRequest(State, calls[c].startAt)
                     /\ calls'[c].ret = "false" => cache' = cache]_vars

\* All three outcomes have been seen: a call that returned true although
\* its fetch failed and nothing was ever written to the data entry, and a
\* call that returned false.
C12_Witness ==
    /\ cacheSrc = NoSrc
    /\ \E f \in DOMAIN fetches : Get(cache, KeyErr) = FetchErr(f)
    /\ \E c \in DOMAIN calls : calls[c].ret = "true"
    /\ \E c \in DOMAIN calls : calls[c].ret = "false"

\* What a failure of fetch f leaves behind: the error under ErrorKey and in
\* the state of every mounted hook.
ErrorDelivered(f) ==
    /\ Get(cache', KeyErr) = FetchErr(f)
    /\ \A h \in Hooks :
          hooks[h].status = "mounted" => hooks'[h].error = FetchErr(f)

C14_FailureKeepsData ==
    [][\A f \in DOMAIN fetches :
          (/\ fetches[f].state = "pending"
           /\ Install(SettleFetch(State, f, FALSE,
                                  CHOOSE x \in Values : TRUE, 0)))
          => /\ Has(cache', K) = Has(cache, K)
             /\ Get(cache', K) = Get(cache, K)
             /\ cacheSrc' = cacheSrc
             /\ \A h \in Hooks : hooks'[h].data = hooks[h].data]_vars

\* A fetch has failed after data had been stored: the cache and two mounted
\* hooks hold the data together with the error of the fetch.
C14_Witness ==
    /\ Get(cache, K) # Undef
    /\ \E f \in DOMAIN fetches :
          /\ Get(cache, KeyErr) = FetchErr(f)
          /\ \A h \in Hooks :
                /\ hooks[h].status = "mounted"
                /\ hooks[h].data = Get(cache, K)
                /\ hooks[h].error = FetchErr(f)

\* C15 - a mutate whose value producer or promise rejected with e rejects
\* with e, whether it was abandoned or committed, with or without
\* subscribers; a mutate whose value resolved does not reject.
C15_MutateRejectsWithProducerError ==
    \A m \in DOMAIN muts :
       muts[m].pc = "done"
       => IF muts[m].error # Undef
          THEN muts[m].outcome = "threw" /\ muts[m].result = muts[m].error
          ELSE muts[m].outcome = "returned"

\* C16 - mutate(K, V, false) with a plain defined value V does all its work
\* in the step of the call: the cache holds V, the mutation window is
\* closed, every subscriber of K holds V, the call has ended, and no
\* revalidate call and no fetcher invocation is made.
C16_PlainMutateIsSynchronous ==
    [][\A v \in Values :
          Install(MutateBegin(State, "plain", v, FALSE))
          => /\ Get(cache', K) = v
             /\ Has(mend', K) /\ mend'[K] # 0 /\ mend'[K] = mts'[K]
             /\ Has(updaters, K)
                  => \A i \in DOMAIN updaters[K] :
                        hooks'[updaters[K][i]].data = v
             /\ muts'[Len(muts) + 1].pc = "done"
             /\ muts'[Len(muts) + 1].committed
             /\ Len(fetches') = Len(fetches)
             /\ Len(calls') = Len(calls)]_vars

\* A mutate has written a value while two hooks were subscribed and no
\* fetch was ever made: the cache and both hooks hold the value and the
\* window is closed.
C16_Witness ==
    /\ fetches = <<>> /\ calls = <<>>
    /\ Len(muts) = 1 /\ muts[1].pc = "done" /\ muts[1].committed
    /\ muts[1].data # Undef /\ Get(cache, K) = muts[1].data
    /\ Has(mend, K) /\ mend[K] # 0
    /\ \A h \in Hooks :
          hooks[h].status = "mounted" /\ hooks[h].data = muts[1].data

\* The subscribers of K, in the order of their registration.
Subscribers == IF Has(updaters, K) THEN updaters[K] ELSE <<>>

\* C17 - trigger(K) and mutate(K) without data leave the mutation ledger
\* alone and write nothing to the cache themselves; every subscriber is
\* handed the cached data and error once and, when revalidation is asked
\* for, is made to revalidate, the first without dedupe and the others with
\* it; the call resolves to the cached data once all those revalidations
\* have ended, and with no subscriber it resolves at once, no fetcher being
\* invoked.
C17_TriggerRedelivers ==
    [][/\ \A sr \in BOOLEAN :
             Install(Trigger(State, sr))
             => LET T == Trigger(State, sr)
                    n == Len(Subscribers)
                    m == Len(muts) + 1
                IN /\ T.mts = mts /\ T.mend = mend /\ T.cache = cache
                   /\ mts' = mts /\ mend' = mend
                   /\ \A i \in 1..n :
                         LET h == Subscribers[i]
                         IN /\ T.hooks[h].error = Get(cache, KeyErr)
                            /\ Get(cache, K) # Undef
                                 => T.hooks[h].data = Get(cache, K)
                   /\ Len(T.calls) = Len(calls) + (IF sr THEN n ELSE 0)
                   /\ sr => \A i \in 1..n :
                         LET c == T.calls[Len(calls) + i]
                         IN /\ c.parent = m
                            /\ IF Inactive(Subscribers[i])
                               THEN c.pc = "done" /\ c.ret = "false"
                               ELSE /\ c.hook = Subscribers[i]
                                    /\ c.dedupe = (i > 1)
                   /\ n = 0 => /\ muts'[m].pc = "done"
                               /\ muts'[m].outcome = "returned"
                               /\ muts'[m].result = Get(cache, K)
                               /\ fetches' = fetches /\ calls' = calls
       /\ \A m \in DOMAIN muts' :
             (/\ muts'[m].pc = "done"
              /\ muts'[m].data = Undef /\ muts'[m].error = Undef
              /\ ~muts'[m].committed
              /\ (m \in DOMAIN muts => muts[m].kind = "trigger"))
             => /\ muts'[m].outcome = "returned"
                /\ muts'[m].result = Get(cache', K)
                /\ \A c \in DOMAIN calls' :
                      calls'[c].parent = m => calls'[c].pc = "done"]_vars

\* A trigger over two subscribers has resolved to the cached data after the
\* revalidations it started had ended.
C17_Witness ==
    \E m \in DOMAIN muts :
       /\ muts[m].pc = "done" /\ muts[m].outcome = "returned"
       /\ muts[m].data = Undef /\ muts[m].error = Undef /\ ~muts[m].committed
       /\ muts[m].result # Undef /\ muts[m].result = Get(cache, K)
       /\ Cardinality({c \in DOMAIN calls : calls[c].parent = m}) = 2
       /\ \E c \in DOMAIN calls : calls[c].parent = m /\ calls[c].ret = "true"

\* The retry a failure of call c schedules, if it schedules one.
RetryOf(c) == {t \in timers' \ timers : t.kind = "retry" /\ t.id = c}

\* A failed attempt that was the attempt number retryCount (0 for the
\* call made from outside) is retried unless the cap is reached.
RetryDue(retryCount) ==
    /\ visible
    /\ config.shouldRetryOnError
    /\ config.hasErrorRetryCount => retryCount + 1 <= config.errorRetryCount

\* C18 - with errorRetryCount = n a failed attempt is retried exactly when
\* fewer than n retries have been made, so that a fetch that keeps failing
\* is retried n times and no more; with errorRetryCount unset every failed
\* attempt is retried.
C18_RetryCap ==
    [][/\ \A f \in DOMAIN fetches, rnd \in RetryRands :
             (/\ fetches[f].state = "pending"
              /\ Install(SettleFetch(State, f, FALSE,
                                     CHOOSE x \in Values : TRUE, rnd)))
             => \A c \in DOMAIN calls :
                   (calls[c].pc = "await" /\ calls[c].fetch = f)
                   => /\ RetryOf(c) # {} <=> RetryDue(calls[c].retryCount)
                      /\ \A t \in RetryOf(c) :
                            t.retryCount = calls[c].retryCount + 1
       /\ \A h \in Hooks, dedupe \in BOOLEAN, rnd \in RetryRands :
             (/\ hooks[h].status = "mounted"
              /\ ~(Has(cp, K) /\ dedupe)
              /\ Install(RevalThrow([State EXCEPT !.rnd = rnd],
                                    h, dedupe, 0, 0)))
             => RetryOf(Len(calls) + 1) # {} <=> RetryDue(0)
       /\ \A t \in timers :
             (t.kind = "retry" /\ Install(TimerFire(State, t)))
             => \/ calls'[Len(calls) + 1].pc = "done"
                \/ calls'[Len(calls) + 1].retryCount = t.retryCount
       /\ config.hasErrorRetryCount
            => \A c \in DOMAIN calls' :
                  calls'[c].retryCount <= config.errorRetryCount]_vars

\* With errorRetryCount = 2 a fetch has failed three times in a row, the
\* call and its two retries, and no retry is scheduled any more.
C18_Witness ==
    /\ visible /\ config.hasErrorRetryCount /\ config.errorRetryCount = 2
    /\ cacheSrc = NoSrc
    /\ Len(fetches) = 3 /\ Len(calls) = 3
    /\ \A c \in DOMAIN calls : calls[c].ret = "true"
    /\ Get(cache, KeyErr) = FetchErr(3)
    /\ \A t \in timers : t.kind # "retry"

\* C19 - the retry scheduled after a failure calls revalidate with dedupe
\* true and with the retryCount of the failed call plus one, whatever the
\* options of the failed call were.
C19_RetryAlwaysDedupes ==
    [][\A c \in DOMAIN calls :
          calls[c].pc = "await"
          => \A t \in RetryOf(c) :
                t.dedupe /\ t.retryCount = calls[c].retryCount + 1]_vars

\* C20 - the delay of a retry is floor((r + 0.5) * 2^c) * errorRetryInterval
\* for c = min(retryCount, 8) and some r in [0, 1): a whole multiple m of
\* errorRetryInterval which, for c >= 1, satisfies
\* 2^(c-1) <= m < 3 * 2^(c-1); from retryCount 8 on the range is that of 8.
C20_BackoffDelay ==
    \A t \in timers :
       t.kind = "retry"
       => LET delay == t.at - now
              interval == config.errorRetryInterval
              c == IF t.retryCount < 8 THEN t.retryCount ELSE 8
              m == delay \div interval
          IN /\ delay = m * interval
             /\ \E r \in 0..(RandDen - 1) :
                   /\ 2 * RandDen * m <= (2 * r + RandDen) * 2 ^ c
                   /\ (2 * r + RandDen) * 2 ^ c < 2 * RandDen * (m + 1)
             /\ c >= 1 => /\ 2 ^ (c - 1) <= m
                          /\ m < 3 * 2 ^ (c - 1)
                          /\ delay > 0
             /\ t.retryCount >= 8 => (128 <= m /\ m < 384)

\* A retry beyond the eighth is scheduled, with an interval that is not
\* one: its delay is in the range of the eighth.
C20_Witness ==
    \E t \in timers :
       /\ t.kind = "retry" /\ t.retryCount > 8
       /\ config.errorRetryInterval > 1
       /\ t.at - now >= 128 * config.errorRetryInterval
       /\ t.at - now > 256 * config.errorRetryInterval

\* The canonical string the Store files a key under, before and after the
\* step; a key with an object hash has not seen yet has none before.
Canonical(key) == Serialized(State, key).key
CanonicalNext(key) == SerializeAnyKey(key, table', counter').key
Numbered(key) == Serialized(State, key).table = table

\* What get and has answer for the other keys is what they answered before.
OthersKept(key) ==
    \A other \in StoreKeys :
       CanonicalNext(other) # CanonicalNext(key)
       => /\ Get(cache', CanonicalNext(other)) = Get(cache, CanonicalNext(other))
          /\ Has(cache', CanonicalNext(other)) = Has(cache, CanonicalNext(other))

\* C21 - the Store round trip: set(K, X) leaves the Store answering X to
\* get(K) and true to has(K), for any X, and changes the answer for no other
\* canonical key; get, has and keys change nothing and answer from the
\* Store as it is; delete touches only the key it is given; the canonical
\* string of a key never changes.
C21_StoreRoundTrip ==
    [][\A key \in StoreKeys :
          /\ Numbered(key) => CanonicalNext(key) = Canonical(key)
          /\ \A x \in StoreValues :
                Install(CacheSet(State, key, x))
                => /\ Get(cache', CanonicalNext(key)) = x
                   /\ Has(cache', CanonicalNext(key))
                   /\ OthersKept(key)
          /\ Install(CacheGet(State, key))
                => /\ cache' = cache
                   /\ returned'.ret = Get(cache, CanonicalNext(key))
          /\ Install(CacheHas(State, key))
                => /\ cache' = cache
                   /\ returned'.bool = Has(cache, CanonicalNext(key))
          /\ Install(CacheKeys(State)) => cache' = cache
          /\ Install(CacheDelete(State, key))
                => /\ ~Has(cache', CanonicalNext(key))
                   /\ OthersKept(key)]_vars

\* get has just answered null for an array key that holds an object,
\* while another key holds something else and a third was set to undefined.
C21_Witness ==
    /\ returned.op = "get" /\ returned.ret = Null
    /\ Numbered(ArrayKey(<<ObjectArg("o2")>>))
    /\ Get(cache, Canonical(ArrayKey(<<ObjectArg("o2")>>))) = Null
    /\ Get(cache, Canonical(StringKey(<<"a">>))) = "A"
    /\ Has(cache, Canonical(FunctionKey(TRUE, NullKey)))
    /\ Get(cache, Canonical(FunctionKey(TRUE, NullKey))) = Undef

\* Hook h holds data equal to v under compare and is handed v: its data is
\* not replaced, and nothing but isValidating and the error changes.
DataKept(h, v) ==
    (hooks[h].status = "mounted" /\ Compare(hooks[h].data, v))
    => /\ hooks'[h].data = hooks[h].data
       /\ hooks'[h].status = hooks[h].status
       /\ hooks'[h].key = hooks[h].key /\ hooks'[h].fn = hooks[h].fn

\* C22 - a fetch result or a broadcast value that is equal under compare
\* to the data a hook holds does not replace that data: the hook keeps the
\* object it has, and the calling hook's isValidating still goes to false.
C22_EqualDataNotReplaced ==
    [][\A v \in EqualValues :
          /\ \A f \in DOMAIN fetches :
                (/\ fetches[f].state = "pending"
                 /\ Install(SettleFetch(State, f, TRUE, v, 0)))
                => /\ \A h \in Hooks : DataKept(h, v)
                   /\ \A c \in DOMAIN calls :
                         (/\ calls[c].pc = "await" /\ calls[c].fetch = f
                          /\ hooks[calls[c].hook].status = "mounted")
                         => ~hooks'[calls[c].hook].isValidating
          /\ Install(MutateBegin(State, "plain", v, FALSE))
                => \A h \in Hooks : DataKept(h, v)]_vars

\* The cache has taken an equal copy of the data from a fetch that was
\* accepted, while both hooks still hold the object they had.
C22_Witness ==
    /\ Get(cache, K) = "A'" /\ cacheSrc.k = "fetch"
    /\ \E c \in DOMAIN calls : calls[c].ret = "true"
    /\ \A h \in Hooks :
          /\ hooks[h].status = "mounted" /\ hooks[h].data = "A"
          /\ ~hooks[h].isValidating

\* The callbacks a finished broadcast invoked, in the order of the calls.
Invoked == [i \in DOMAIN bcast.invoked |-> bcast.invoked[i].cb]

\* C23 - a broadcast during which nothing is registered or unregistered
\* invokes the callbacks then registered, once each, in the order of their
\* registration, with the same data and error.
C23_BroadcastInRegistrationOrder ==
    (~bcast.on /\ ~bcast.touched)
    => /\ Invoked = bcast.order
       /\ \A i \in DOMAIN bcast.invoked :
             /\ bcast.invoked[i].data = bcast.data
             /\ bcast.invoked[i].error = bcast.error

\* C24 - a broadcast invokes every callback that was registered when it
\* began exactly once, whatever is registered or unregistered while it runs.
C24_BroadcastOverSnapshot ==
    ~bcast.on
    => \A j \in DOMAIN bcast.snapshot :
          Cardinality({i \in DOMAIN Invoked :
                         Invoked[i] = bcast.snapshot[j]}) = 1

\* The key is a function whose call throws.
Throws(key) == key.t = "function" /\ key.throws

\* Neither the Store, nor the registries, nor the mutation ledger change, no
\* fetcher is invoked and nothing is scheduled.
Untouched ==
    UNCHANGED <<cache, cp, cpts, mts, mend, updaters, fetches, timers, hooks>>

\* C25 - serializeKey gives a throwing key function the empty canonical
\* key, null arguments and an empty error key, and revalidate, mutate and
\* trigger on an empty key return at once (false, undefined, undefined)
\* and change nothing.
C25_EmptyKeyDisables ==
    /\ [](\A key \in KeySamples :
            Throws(key)
            => /\ Serialized(State, key).key = <<>>
               /\ Serialized(State, key).args = Null
               /\ Serialized(State, key).errKey = <<>>)
    /\ [][\A key \in KeySamples, shouldRevalidate \in BOOLEAN :
            Serialized(State, key).key = <<>>
            => /\ \A v \in Values \cup {Undef} :
                    Install(MutateOn(State, key, v, shouldRevalidate))
                    => /\ Untouched /\ UNCHANGED <<calls, muts>>
                       /\ returned' = Returned("mutate", Undef)
               /\ Install(TriggerOn(State, key, shouldRevalidate))
                    => /\ Untouched /\ UNCHANGED <<calls, muts>>
                       /\ returned' = Returned("trigger", Undef)]_vars
    /\ [][\A h \in Hooks, dedupe \in BOOLEAN :
            (hooks[h].key = <<>> /\ Install(RevalBegin(State, h, dedupe, 0, 0)))
            => /\ Untouched /\ UNCHANGED muts
               /\ calls' = Append(calls, DoneCall("false", 0))]_vars

\* With a resource in the Store and a subscriber of K, a hook whose key
\* function threw has revalidated and a mutate on an empty key has returned.
C25_Witness ==
    /\ Has(cache, K) /\ Has(updaters, K) /\ updaters[K] # <<>>
    /\ returned.op = "mutate"
    /\ \E h \in Hooks : hooks[h].status = "mounted" /\ hooks[h].key = <<>>
    /\ \E c \in DOMAIN calls : calls[c].ret = "false"

\* C26 - the entry that holds the error of a resource is the data entry of
\* no resource: writing or clearing the error of K1 leaves what get returns
\* for the data of every K2 as it was.
C26_ErrorSlotsDisjoint ==
    /\ [](\A k1 \in SlotKeys, k2 \in SlotKeys :
            Serialized(State, k1).errKey # Serialized(State, k2).key)
    /\ [][\A k1 \in SlotKeys, error \in SlotErrors :
            Install(CacheSetError(State, k1, error))
            => \A k2 \in SlotKeys :
                  Get(cache', Canonical(k2)) = Get(cache, Canonical(k2))]_vars

\* C27 - two composite keys have the same hash exactly when they have the
\* same elements (primitives by type and value, objects by identity),
\* hashing a key again gives the same text, and the text of a composite key
\* is the canonical key of no string key.
C27_HashInjective ==
    \A a \in HashInputs, b \in HashInputs :
       LET ha == Hash(a, table, counter)
           hb == Hash(b, ha.table, ha.counter)
           again == Hash(a, hb.table, hb.counter)
       IN /\ (ha.key = hb.key) <=> (a = b)
          /\ again.key = ha.key
          /\ a # <<>>
             => \A str \in StringSamples :
                   SerializeAnyKey(StringKey(str), table, counter).key # ha.key

\* C28 - when the value of an asynchronous mutate arrives, the mutate writes
\* the Store, closes the window and notifies the subscribers exactly when
\* MUTATION_TS[K] and CONCURRENT_PROMISES_TS[K] are what they were when it
\* began; after another mutate or a fetch for K began meanwhile, it writes
\* nothing and notifies nobody.
C28_CommitsIffUnchanged ==
    [][\A m \in DOMAIN muts, ok \in BOOLEAN, v \in Values :
          (muts[m].pc = "awaitValue" /\ Install(SettleMutate(State, m, ok, v)))
          => LET after == MutateSettled(SettleMutate(State, m, ok, v), m)
                 same == /\ muts[m].beforeMutationTs = GetTs(mts, K)
                         /\ muts[m].beforeConcurrentPromisesTs = GetTs(cpts, K)
                 quiet == /\ after.cache = cache /\ after.mend = mend
                          /\ after.hooks = hooks
             IN /\ same => /\ after.cache =
                                MutateCacheSet(cache, after.muts[m].data,
                                               after.muts[m].error)
                           /\ after.mend = Put(mend, K, now - 1)
                /\ ~same => quiet
                /\ muts[m].superseded => quiet]_vars

\* A fetch for K resolved less than dedupingInterval ago: the removal it
\* scheduled is not due yet.
WithinDedupingInterval ==
    \E t \in timers : t.kind = "dedupe" /\ now < t.at

\* C29 - the registry holds an entry for K from the start of a fetch until
\* dedupingInterval after it resolved, and none once the fetch has failed: a
\* revalidate with dedupe made while a fetch is in flight, or within the
\* interval after one resolved, invokes no fetcher.
C29_RegistryEntryLifetime ==
    /\ [](FetchInFlight => Has(cp, K))
    /\ [][\A h \in Hooks :
            (/\ hooks[h].status = "mounted"
             /\ FetchInFlight \/ WithinDedupingInterval
             /\ Install(RevalBegin(State, h, TRUE, 0, 0)))
            => fetches' = fetches]_vars
    /\ [][\A f \in DOMAIN fetches, v \in Values :
            (/\ fetches[f].state = "pending"
             /\ Install(SettleFetch(State, f, FALSE, v, 0)))
            => ~Has(cp', K)]_vars

\* C30 - a mutate that passes the conflict check after its value failed
\* leaves Store[K] as it is, writes the error under ErrorKey, closes the
\* window and hands the error to every subscriber; one whose value resolved
\* to a defined value writes it to Store[K] and undefined under ErrorKey.
C30_MutateFailureCommitsError ==
    [][\A m \in DOMAIN muts, ok \in BOOLEAN, v \in Values :
          (/\ muts[m].pc = "awaitValue"
           /\ muts[m].beforeMutationTs = GetTs(mts, K)
           /\ muts[m].beforeConcurrentPromisesTs = GetTs(cpts, K)
           /\ Install(SettleMutate(State, m, ok, v)))
          => LET after == MutateSettled(SettleMutate(State, m, ok, v), m)
             IN IF ok
                THEN /\ Has(after.cache, K) /\ after.cache[K] = v
                     /\ Has(after.cache, KeyErr) /\ after.cache[KeyErr] = Undef
                ELSE /\ Has(after.cache, K) <=> Has(cache, K)
                     /\ Get(after.cache, K) = Get(cache, K)
                     /\ Has(after.cache, KeyErr)
                     /\ after.cache[KeyErr] = MutErr(m)
                     /\ after.mend = Put(mend, K, now - 1)
                     /\ \A i \in DOMAIN Subscribers :
                           after.hooks[Subscribers[i]].error = MutErr(m)]_vars

\* A mutate whose value failed has written its error under ErrorKey beside
\* the data of an earlier operation, closed the window and handed the error
\* to a subscriber.
C30_Witness ==
    \E m \in DOMAIN muts :
       /\ muts[m].outcome = "threw" /\ muts[m].committed
       /\ Get(cache, K) \in Values
       /\ Get(cache, KeyErr) = muts[m].error
       /\ Has(mend, K) /\ mend[K] # 0
       /\ Subscribers # <<>>
       /\ \A i \in DOMAIN Subscribers :
             hooks[Subscribers[i]].error = muts[m].error

\* C31 - a mutate that commits a value with shouldRevalidate = true makes
\* every subscriber revalidate: the first starts the one new fetch, without
\* dedupe, and every other joins that fetch; the mutate resolves once all
\* these calls have returned, with the value the Store then holds for K.
C31_MutateRevalidatesOnce ==
    [][/\ \A v \in Values, m \in 1..(Len(muts) + 1) :
             ((\/ /\ m = Len(muts) + 1
                  /\ Install(MutateBegin(State, "plain", v, TRUE))
               \/ /\ m \in DOMAIN muts
                  /\ muts[m].pc = "awaitValue" /\ muts[m].shouldRevalidate
                  /\ muts[m].beforeMutationTs = GetTs(mts, K)
                  /\ muts[m].beforeConcurrentPromisesTs = GetTs(cpts, K)
                  /\ Install(SettleMutate(State, m, TRUE, v)))
              /\ Subscribers # <<>>)
             => LET T == IF m \in DOMAIN muts
                         THEN MutateSettled(SettleMutate(State, m, TRUE, v), m)
                         ELSE MutateBegin(State, "plain", v, TRUE)
                    n == Len(Subscribers)
                    f == Len(fetches) + 1
                IN /\ Len(T.fetches) = f /\ Len(fetches') = f
                   /\ Len(T.calls) = Len(calls) + n
                   /\ \A i \in 1..n :
                         LET c == T.calls[Len(calls) + i]
                         IN /\ c.hook = Subscribers[i] /\ c.parent = m
                            /\ c.pc = "await" /\ c.fetch = f
                            /\ c.dedupe = (i > 1)
                            /\ c.shouldDeduping = (i > 1)
       /\ \A m \in DOMAIN muts' :
             (/\ muts'[m].pc = "done"
              /\ muts'[m].committed /\ muts'[m].data # Undef
              /\ m \in DOMAIN muts /\ muts[m].pc = "awaitRevals")
             => /\ muts'[m].outcome = "returned"
                /\ muts'[m].result = Get(cache', K)
                /\ \A c \in DOMAIN calls' :
                      calls'[c].parent = m => calls'[c].pc = "done"
       /\ \A m \in DOMAIN muts' :
             muts'[m].pc = "done"
             => \A c \in DOMAIN calls' :
                   calls'[c].parent = m => calls'[c].pc = "done"]_vars

\* A mutate that committed a value has resolved, after the two revalidate
\* calls it started had returned, with the value their fetch brought.
C31_Witness ==
    \E m \in DOMAIN muts :
       /\ muts[m].pc = "done" /\ muts[m].committed
       /\ muts[m].outcome = "returned"
       /\ muts[m].data \in Values
       /\ muts[m].result = Get(cache, K) /\ muts[m].result # muts[m].data
       /\ Cardinality({c \in DOMAIN calls : calls[c].parent = m}) = 2
       /\ \A c \in DOMAIN calls : calls[c].parent = m => calls[c].ret = "true"

\* C32: set, delete and clear write and then invoke every listener that is
\* subscribed and not unsubscribed exactly once (once per subscription when
\* it was subscribed several times); get, has and keys invoke none; a
\* listener whose subscriptions were all unsubscribed is not invoked; and
\* __listeners holds each listener once per subscription that is still
\* subscribed, so that no unsubscribe removes another subscription.
C32_ListenersNotifiedOnce ==
    [][LET Live(subs, l) ==
               Cardinality({s \in 1..Len(subs) :
                              subs[s].listener = l /\ subs[s].isSubscribed})
           Count(seq, l) == Cardinality({i \in 1..Len(seq) : seq[i] = l})
       IN /\ \A l \in ListenerSamples :
               Count(listeners'.list, l) = Live(listeners'.subs, l)
          /\ returned'.op \in {"get", "has", "keys"} =>
               listeners'.calls = <<>>
          /\ (\/ Install(CacheSet(State, ListenerKey, "A"))
              \/ Install(CacheDelete(State, ListenerKey))
              \/ Install(CacheClear(State))) =>
               \A l \in ListenerSamples :
                  /\ Live(listeners.subs, l) = 0 =>
                       Count(listeners'.calls, l) = 0
                  /\ Live(listeners'.subs, l) = Live(listeners.subs, l) =>
                       Count(listeners'.calls, l) = Live(listeners.subs, l)
      ]_vars

\* C33 - the cleanup of a hook removes its callback, and nothing else, from
\* each of the three registries, the last callback of a list taking the
\* removed one's place; removing a callback that is not in a list leaves the
\* list as it is; and no registry holds a callback of a hook that is not
\* mounted.
C33_UnregisterRemovesOne ==
    [][LET List(reg) == IF Has(reg, K) THEN reg[K] ELSE <<>>
           In(list, h) == \E i \in 1..Len(list) : list[i] = h
           old == <<List(focusRevalidators), List(reconnectRevalidators),
                    List(updaters)>>
           new == <<List(focusRevalidators'), List(reconnectRevalidators'),
                    List(updaters')>>
       IN \A r \in 1..3, h \in RegistryHooks :
            /\ (hooks[h].status = "mounted" /\ hooks'[h].status = "unmounted")
               => /\ In(old[r], h)
                  /\ Len(new[r]) = Len(old[r]) - 1
                  /\ ~In(new[r], h)
                  /\ \A g \in RegistryHooks \ {h} :
                        In(old[r], g) => In(new[r], g)
                  /\ \A i \in 1..Len(new[r]) :
                        new[r][i] = IF old[r][i] = h
                                    THEN old[r][Len(old[r])] ELSE old[r][i]
            /\ ~In(old[r], h) => RemoveRevalidator(old[r], h) = old[r]
            /\ hooks'[h].status # "mounted" => ~In(new[r], h)
      ]_vars

\* C33 witness: a hook was unmounted and the last callback stands where the
\* hook's callback stood, before a callback registered earlier than it.
C33_Witness ==
    /\ \E h \in RegistryHooks : hooks[h].status = "unmounted"
    /\ Has(updaters, K) /\ Len(updaters[K]) = 2
    /\ updaters[K] # registered
    /\ focusRevalidators = updaters
    /\ reconnectRevalidators = updaters

\* C34 - a focus, visibilitychange or online event calls the first callback
\* of the key's list and no other: it begins at most one revalidate call,
\* deduped and of the hook at the head of the list, hence at most one
\* fetch, and none when the document is hidden, the browser offline or the
\* list empty; and when a call begun by an event commits a fetched value,
\* every subscriber of the key holds that value.
C34_EventRevalidatesHead ==
    [][LET List(reg) == IF Has(reg, K) THEN reg[K] ELSE <<>>
           Held(v) == /\ Get(cache', K) = v
                      /\ \A i \in 1..Len(List(updaters')) :
                            hooks'[List(updaters')[i]].data = v
           Event(S0, event, list) ==
              LET T == RevalidateEvent(S0, event)
                  begun == (Len(calls) + 1)..Len(calls')
              IN Install(T) =>
                   /\ Len(calls') <= Len(calls) + 1
                   /\ Len(fetches') <= Len(fetches) + 1
                   /\ marks'.event = marks.event \cup begun
                   /\ (~S0.visible \/ ~S0.online \/ list = <<>>) =>
                         (begun = {} /\ fetches' = fetches)
                   /\ \A c \in begun :
                         /\ T.calls[c].hook = list[1]
                         /\ T.calls[c].dedupe
                         /\ (/\ calls'[c].ret = "true"
                             /\ fetches[T.calls[c].fetch].state = "resolved")
                            => Held(fetches[T.calls[c].fetch].val)
       IN /\ Event(State, "focus", List(focusRevalidators))
          /\ Event([State EXCEPT !.visible = ~@], "visibilitychange",
                   List(focusRevalidators))
          /\ Event([State EXCEPT !.online = TRUE], "online",
                   List(reconnectRevalidators))
          /\ \A f \in 1..Len(fetches), v \in Values :
                Install(SettleFetch(State, f, TRUE, v, 0)) =>
                   \A c \in marks.event :
                      (calls[c].fetch = f /\ calls[c].pc = "await"
                       /\ calls'[c].ret = "true") => Held(v)
      ]_vars

\* C35 - the timer of onLoadingSlow is set only by a call that starts a
\* fetch of its own while the cache holds no value for the key, for
\* loadingTimeout later; onLoadingSlow is emitted only when that time has
\* passed and only for a call that is still outstanding, never for one that
\* has returned; and emitting it changes nothing else.
C35_LoadingSlowOnlyWhileLoading ==
    [][/\ \A t \in timers' \ timers :
             t.kind = "slow" =>
                /\ t.id > Len(calls) /\ t.at = now + LoadingTimeout
                /\ calls'[t.id].pc = "await"
                /\ ~calls'[t.id].shouldDeduping
                /\ calls'[t.id].fetch > Len(fetches)
                /\ Get(cache', K) = Undef
       /\ \A c \in marks'.slow \ marks.slow :
             /\ \E t \in timers : t.kind = "slow" /\ t.id = c /\ t.at <= now
             /\ calls[c].pc = "await"
             /\ UNCHANGED <<cache, hooks, calls, fetches, muts, cp, cpts,
                            mts, mend>>
      ]_vars

\* C36 - a revalidate call that a mutate begins when it has committed has a
\* startAt greater than the MUTATION_TS[K] and the MUTATION_END_TS[K] that
\* mutate wrote; and when its fetch resolves while no mutate and no fetch
\* has begun after them, the value is written to the Store and the call
\* returns true.
C36_OwnRevalidationKept ==
    [][/\ \A c \in DOMAIN calls' \ DOMAIN calls :
             (calls'[c].parent # 0 /\ calls'[c].pc = "await")
             => /\ muts'[calls'[c].parent].committed
                /\ mts'[K] = muts'[calls'[c].parent].beforeMutationTs
                /\ mend'[K] = now - 1
                /\ calls'[c].startAt > mts'[K]
                /\ calls'[c].startAt > mend'[K]
       /\ \A f \in DOMAIN fetches, v \in Values :
             Install(SettleFetch(State, f, TRUE, v, 0))
             => \A c \in DOMAIN calls :
                   (/\ calls[c].pc = "await" /\ calls[c].fetch = f
                    /\ calls[c].parent # 0 /\ calls[c].parent = Len(muts)
                    /\ f = Len(fetches))
                   => /\ Get(cache', K) = v
                      /\ calls'[c].ret = "true"]_vars

\* C37: mutation windows never block fetches forever.  In every state in which
\* no mutate call on K is outstanding, whether the earlier mutates committed or
\* were abandoned, a fetch for K that then starts and resolves successfully
\* with no later fetch or mutation on K in between is committed: Store[K]
\* becomes the fetched value and the revalidate call returns true.
C37_WindowsNeverBlockForever ==
    MutatesOutstanding = {}
    => \A h \in Hooks, v \in Values :
          hooks[h].status = "mounted"
          => LET c == Len(calls) + 1
                 f == Len(fetches) + 1
                 T == Drain(RevalBegin(State, h, FALSE, 0, 0))
                 U == Drain(SettleFetch(T, f, TRUE, v, 0))
             IN  (Len(T.calls) = c /\ Len(T.fetches) = f /\ T.calls[c].pc = "await")
                 => /\ Get(U.cache, K) = v
                    /\ U.calls[c].ret = "true"

\* C38: removal from the in-flight registry removes only the entry of the
\* fetch that caused the removal.  While the fetch registered for K is in
\* flight and no newer fetch for K starts, no step deletes or replaces its
\* entry: neither the delayed removal scheduled after an earlier fetch's
\* success, nor the failure of an earlier fetch or of a call awaiting it,
\* removes the promise or the start timestamp of the newer fetch.
C38_RemovalOnlyOfOwnEntry ==
    [][\A f \in DOMAIN fetches :
          (/\ fetches[f].state = "pending"
           /\ Has(cp, K) /\ cp[K] = f
           /\ fetches'[f].state = "pending"
           /\ Len(fetches') = Len(fetches))
          => /\ Has(cp', K) /\ cp'[K] = f
             /\ Has(cpts', K) /\ cpts'[K] = cpts[K]]_vars

\* C39: whenever a mounted hook has no revalidate call outstanding, its
\* isValidating is false: every revalidate call that set it to true sets it
\* back to false before it returns, on the committed, the ignored and the
\* failed path alike.
C39_IdleHookNotValidating ==
    \A h \in Hooks :
       (/\ hooks[h].status = "mounted"
        /\ \A c \in CallsOutstanding : calls[c].hook # h)
       => ~hooks[h].isValidating

\* C40: a fetch that fails after it has been superseded, that is, one whose
\* successful result would be discarded because a newer fetch for K started
\* after it or a mutation on K started or ended at or after its start, does
\* not overwrite the ErrorKey entry of K and delivers its error to no hook.
C40_SupersededFailureDiscarded ==
    [][\A f \in DOMAIN fetches, rnd \in RetryRands :
          (/\ fetches[f].state = "pending"
           /\ ShouldIgnoreRequest(State, fetches[f].startAt)
           /\ Install(SettleFetch(State, f, FALSE,
                                  CHOOSE x \in Values : TRUE, rnd)))
          => /\ Get(cache', KeyErr) = Get(cache, KeyErr)
             /\ \A h \in Hooks : hooks'[h].error = hooks[h].error]_vars
====
